---- MODULE Spec2Model ----
(***************************************************************************)
(* Bookmark sync server: the SQL store (bookmarks, sync_events,            *)
(* sync_versions), the REST routes and the WebSocket message router.       *)
(*                                                                         *)
(* The server is a single Node.js process and every db function is         *)
(* synchronous, so one REST request or one WebSocket frame is handled to   *)
(* completion: each handler is one action.                                 *)
(*                                                                         *)
(* Left out of a row: favicon, date_added and date_modified (passive       *)
(* columns that no decision of the modelled handlers reads).               *)
(***************************************************************************)
EXTENDS Integers, Sequences, FiniteSets, TLC

(* ------------------------------ bounds -------------------------------- *)

\* how many bookmark ids crypto.randomUUID() hands out in one behaviour
MaxBookmarkIds == 2
\* the longest log of the paging specification, in pages of EventPageLimit rows
MaxPages == 2
\* how many successful mutations one behaviour holds
MaxMutations == 3

IdPool == <<"b1", "b2", "b3", "b4", "b5", "b6", "b7", "b8", "b9", "b10">>
BookmarkIds == {IdPool[i] : i \in 1..MaxBookmarkIds}

Users == {"u1", "u2"}
Conns == {"w1"}
ClientIds == {"d1"}

NULL == "null"
NoUser == "none"
NoClient == "none"

\* 'api' is the clientId the REST routes pass to the store
ApiClient == "api"

\* LIMIT of the sync_events query
EventPageLimit == 1000

\* ws.close(4001, 'Authentication failed')
AuthFailedCode == 4001

\* the title the create routes store for an empty one (a fixed non-empty
\* literal in the source)
DefaultTitle == "(untitled)"

(* --------------------------- request inputs --------------------------- *)

\* BookmarkCreateData (the fields the store writes)
LinkData == [parentId |-> NULL, title |-> "a", url |-> "u", isFolder |-> FALSE, sortOrder |-> 0]
CreateInputs == { LinkData }

\* Partial<Bookmark>: a field that is undefined is a field that is absent
TitlePatch == [title |-> "b"]
Patches == { TitlePatch }

ExpectedVersions == 0..2
SortOrders == {1}
MoveParents == {"b1"}
CursorValues == 0..MaxMutations
\* the message of an INVALID_REQUEST error: JSON.parse threw, or unknown type
InvalidReasons == {"Invalid message format", "Unknown message type"}

(* ------------------------------- state -------------------------------- *)

VARIABLES
    db,               \* the sql.js database: tables bookmarks, sync_events, sync_versions
    nextId,           \* how many ids crypto.randomUUID() has handed out
    sockets,          \* wss.clients: the fields of each AuthenticatedWebSocket
    userConnections,  \* Map<userId, Set<ws>>
    result,           \* what the store function called by the last handler returned or threw
    sent,             \* the frames the last handler wrote, in order: <<[to, msg]>>
    reply,            \* the HTTP response of the last handler (REST)
    successes,        \* history: successful update/move/delete requests per bookmark row
    mutations,        \* history: successful mutations per user since creation or last clear
    wiped,            \* history: per user, the highest ledger value a clear has wiped
    applied,          \* history: successful mutations of the whole behaviour
    pager,            \* a caller paging through getSyncEventsSince
    probe,            \* history: per socket, "probed" while a heartbeat ping is unanswered
    inflight,         \* requests the server has received and not yet handled; as history, how each ended
    delivered,        \* history: per user, the acks and broadcasts written since the user's last clear
    tree,             \* extension: chrome.bookmarks, the local nodes below the root "0"
    localToRemoteId,  \* extension: Map<local id, remote id> of the service worker
    idMapStorage,     \* extension: the id map kept in chrome.storage
    authToken,        \* extension: the token of the service worker, NULL when logged out
    isSyncing,        \* extension: a sync run holds the flag
    run,              \* extension: the sync run in flight and, as history, what it sent
    edits,            \* history: how many changes the user has made to the local tree
    stateRestored,    \* extension: the module's stateRestored flag
    settingsStorage,  \* extension: settings.authToken kept in chrome.storage, NULL when absent
    tasks             \* extension: where the handlers in flight besides the sync run stand

\* the state of the browser extension
extVars == <<tree, localToRemoteId, idMapStorage, authToken, isSyncing, run, edits,
             stateRestored, settingsStorage, tasks>>

\* the state of the server
serverVars == <<db, nextId, sockets, userConnections, result, sent, reply,
                successes, mutations, wiped, applied, pager>>

\* what a handler of the server leaves alone
Outside == UNCHANGED <<probe, inflight, delivered, extVars>>

\* what the heartbeat leaves alone
Quiet == UNCHANGED <<inflight, delivered, extVars>>

\* what the handlers of the extension leave alone, and what those of them
\* that neither log in nor out nor restore leave alone besides
aside == <<probe, inflight, delivered, tasks>>
stored == <<stateRestored, settingsStorage>>

vars == <<db, nextId, sockets, userConnections, result, sent, reply,
          successes, mutations, wiped, applied, pager, probe, inflight, delivered, extVars>>

(* ------------------------------ the store ----------------------------- *)

\* db/users.ts getSyncVersion: the row's value, 0 when the user has no row
getSyncVersion(d, userId) ==
    IF userId \in DOMAIN d.sync_versions THEN d.sync_versions[userId] ELSE 0

incrementSyncVersion_Skip(d, userId) ==
    [db |-> d, newVersion |-> getSyncVersion(d, userId) + 1]

\* db/users.ts incrementSyncVersion: read, add one, UPDATE the user's row
incrementSyncVersion(d, userId) ==
    LET current == getSyncVersion(d, userId)
        newVersion == current + 1
    IN [db |-> [d EXCEPT !.sync_versions =
                    [u \in DOMAIN @ |-> IF u = userId THEN newVersion ELSE @[u]]],
        newVersion |-> newVersion]

\* JSON.parse(JSON.stringify(data)) of an event payload: keys whose value is
\* undefined are dropped; the payloads here carry no such key
JsonRoundTrip(data) == [k \in DOMAIN data |-> data[k]]

recordSyncEvent_RowVersion(d, userId, type, bookmarkId, data, clientId, syncVersion) ==
    [d EXCEPT !.sync_events = Append(@,
        [user_id |-> userId, type |-> type, bookmark_id |-> bookmarkId,
         data |-> JsonRoundTrip(data), client_id |-> clientId,
         sync_version |-> d.bookmarks[bookmarkId].sync_version])]

\* INSERT INTO sync_events: one appended row
recordSyncEvent(d, userId, type, bookmarkId, data, clientId, syncVersion) ==
    [d EXCEPT !.sync_events = Append(@,
        [user_id |-> userId, type |-> type, bookmark_id |-> bookmarkId,
         data |-> JsonRoundTrip(data), client_id |-> clientId,
         sync_version |-> syncVersion])]

clearAllBookmarks_KeepLedger(d, userId) ==
    [bookmarks |-> [i \in {j \in DOMAIN d.bookmarks : d.bookmarks[j].user_id # userId}
                        |-> d.bookmarks[i]],
     sync_events |-> SelectSeq(d.sync_events, LAMBDA e : e.user_id # userId),
     sync_versions |-> d.sync_versions]

\* DELETE FROM bookmarks / sync_events WHERE user_id = ?; current_version = 0
clearAllBookmarks(d, userId) ==
    [bookmarks |-> [i \in {j \in DOMAIN d.bookmarks : d.bookmarks[j].user_id # userId}
                        |-> d.bookmarks[i]],
     sync_events |-> SelectSeq(d.sync_events, LAMBDA e : e.user_id # userId),
     sync_versions |-> [u \in DOMAIN d.sync_versions |->
                            IF u = userId THEN 0 ELSE d.sync_versions[u]]]

\* toBookmark: a row as the Bookmark the API hands out
toBookmark(row) ==
    [id |-> row.id, userId |-> row.user_id, parentId |-> row.parent_id,
     title |-> row.title, url |-> row.url, isFolder |-> row.is_folder = 1,
     sortOrder |-> row.sort_order, syncVersion |-> row.sync_version,
     isDeleted |-> row.is_deleted = 1, deletedAt |-> row.deleted_at]

\* SELECT * FROM bookmarks WHERE user_id = ? AND is_deleted = 0 (as a set; the
\* ORDER BY sort_order only arranges it)
getAllBookmarks(d, userId) ==
    { toBookmark(d.bookmarks[i]) :
        i \in {j \in DOMAIN d.bookmarks :
                  d.bookmarks[j].user_id = userId /\ d.bookmarks[j].is_deleted = 0} }

HasBookmark_AnyUser(d, id, userId) == id \in DOMAIN d.bookmarks

\* WHERE id = ? AND user_id = ?  (soft-deleted rows are found too)
HasBookmark(d, id, userId) ==
    id \in DOMAIN d.bookmarks /\ d.bookmarks[id].user_id = userId

getBookmarkById(d, id, userId) == toBookmark(d.bookmarks[id])

VersionConflict_Loose(existing, expectedVersion) ==
    existing.syncVersion > expectedVersion

\* existing.syncVersion !== expectedVersion
VersionConflict(existing, expectedVersion) ==
    existing.syncVersion # expectedVersion

NotFound == [kind |-> "throw", message |-> "Bookmark not found"]

\* createBookmark: INSERT with sync_version 1, ledger + 1, one 'create' event
createBookmark(d, id, userId, data, clientId) ==
    LET row == [id |-> id, user_id |-> userId, parent_id |-> data.parentId,
                title |-> data.title, url |-> data.url,
                is_folder |-> IF data.isFolder THEN 1 ELSE 0,
                sort_order |-> data.sortOrder, sync_version |-> 1,
                is_deleted |-> 0, deleted_at |-> NULL]
        d1 == [d EXCEPT !.bookmarks =
                  [i \in DOMAIN @ \cup {id} |-> IF i = id THEN row ELSE @[i]]]
        inc == incrementSyncVersion(d1, userId)
        d2 == recordSyncEvent(inc.db, userId, "create", id,
                              data @@ [id |-> id],
                              clientId, inc.newVersion)
    IN [db |-> d2,
        result |-> [kind |-> "ok", bookmark |-> getBookmarkById(d2, id, userId),
                    syncVersion |-> inc.newVersion]]

\* the SET clause of updateBookmark: the fields present in data, then
\* sync_version = sync_version + 1
ApplyPatch(row, data) ==
    [row EXCEPT
        !.title = IF "title" \in DOMAIN data THEN data.title ELSE @,
        !.url = IF "url" \in DOMAIN data THEN data.url ELSE @,
        !.sort_order = IF "sortOrder" \in DOMAIN data THEN data.sortOrder ELSE @,
        !.sync_version = @ + 1]

updateBookmark(d, id, userId, data, expectedVersion, clientId) ==
    IF ~HasBookmark(d, id, userId) THEN [db |-> d, result |-> NotFound]
    ELSE LET existing == getBookmarkById(d, id, userId) IN
    IF VersionConflict(existing, expectedVersion)
    THEN [db |-> d, result |-> [kind |-> "conflict", serverVersion |-> existing]]
    ELSE
    LET d1 == [d EXCEPT !.bookmarks[id] = ApplyPatch(@, data)]
        inc == incrementSyncVersion(d1, userId)
        d2 == recordSyncEvent(inc.db, userId, "update", id, data, clientId, inc.newVersion)
    IN [db |-> d2,
        result |-> [kind |-> "ok", bookmark |-> getBookmarkById(d2, id, userId),
                    syncVersion |-> inc.newVersion]]

\* the SET clause of deleteBookmark: is_deleted = 1, deleted_at = now
\* (date_modified is not modelled); sync_version is not in the clause
SoftDelete(row) == [row EXCEPT !.is_deleted = 1, !.deleted_at = "now"]

deleteBookmark(d, id, userId, expectedVersion, clientId) ==
    IF ~HasBookmark(d, id, userId) THEN [db |-> d, result |-> NotFound]
    ELSE LET existing == getBookmarkById(d, id, userId) IN
    IF VersionConflict(existing, expectedVersion)
    THEN [db |-> d, result |-> [kind |-> "conflict", serverVersion |-> existing]]
    ELSE
    LET d1 == [d EXCEPT !.bookmarks[id] = SoftDelete(@)]
        inc == incrementSyncVersion(d1, userId)
        d2 == recordSyncEvent(inc.db, userId, "delete", id, <<>>, clientId, inc.newVersion)
    IN [db |-> d2,
        result |-> [kind |-> "success", syncVersion |-> inc.newVersion]]

\* the SET clause of moveBookmark
ApplyMove(row, newParentId, newIndex) ==
    [row EXCEPT !.parent_id = newParentId, !.sort_order = newIndex,
                !.sync_version = @ + 1]

moveBookmark(d, id, userId, newParentId, newIndex, expectedVersion, clientId) ==
    IF ~HasBookmark(d, id, userId) THEN [db |-> d, result |-> NotFound]
    ELSE LET existing == getBookmarkById(d, id, userId) IN
    IF VersionConflict(existing, expectedVersion)
    THEN [db |-> d, result |-> [kind |-> "conflict", serverVersion |-> existing]]
    ELSE
    LET d1 == [d EXCEPT !.bookmarks[id] = ApplyMove(@, newParentId, newIndex)]
        inc == incrementSyncVersion(d1, userId)
        d2 == recordSyncEvent(inc.db, userId, "move", id,
                              [parentId |-> newParentId, sortOrder |-> newIndex],
                              clientId, inc.newVersion)
    IN [db |-> d2,
        result |-> [kind |-> "ok", bookmark |-> getBookmarkById(d2, id, userId),
                    syncVersion |-> inc.newVersion]]

\* first n elements of a sequence (LIMIT n)
Limit(s, n) == IF Len(s) <= n THEN s ELSE SubSeq(s, 1, n)

\* a sync_events row as the SyncEvent the API hands out (id and timestamp left out)
toSyncEvent(row) ==
    [type |-> row.type, bookmarkId |-> row.bookmark_id, data |-> row.data,
     clientId |-> row.client_id, syncVersion |-> row.sync_version]

getSyncEventsSince_AllUsers(d, userId, sinceVersion) ==
    LET rows == Limit(SortSeq(SelectSeq(d.sync_events,
                                        LAMBDA e : e.sync_version > sinceVersion),
                              LAMBDA a, b : a.sync_version < b.sync_version),
                      EventPageLimit)
    IN [i \in 1..Len(rows) |-> toSyncEvent(rows[i])]

getSyncEventsSince_Inclusive(d, userId, sinceVersion) ==
    LET rows == Limit(SortSeq(SelectSeq(d.sync_events,
                                        LAMBDA e : e.user_id = userId /\ e.sync_version >= sinceVersion),
                              LAMBDA a, b : a.sync_version < b.sync_version),
                      EventPageLimit)
    IN [i \in 1..Len(rows) |-> toSyncEvent(rows[i])]

\* WHERE user_id = ? AND sync_version > ? ORDER BY sync_version ASC LIMIT 1000
getSyncEventsSince(d, userId, sinceVersion) ==
    LET rows == Limit(SortSeq(SelectSeq(d.sync_events,
                                        LAMBDA e : e.user_id = userId /\ e.sync_version > sinceVersion),
                              LAMBDA a, b : a.sync_version < b.sync_version),
                      EventPageLimit)
    IN [i \in 1..Len(rows) |-> toSyncEvent(rows[i])]

(* ----------------------------- the sockets ----------------------------- *)

\* jwt.verify(token, JWT_SECRET): the token's userId, or null
Tokens == Users \cup {"invalid"}
verifyToken_AcceptAll(token) == token

verifyToken(token) == IF token \in Users THEN token ELSE NULL

\* sendMessage: written only to a socket whose readyState is OPEN
sendMessage(socks, out, w, msg) ==
    IF socks[w].readyState = "OPEN" THEN Append(out, [to |-> w, msg |-> msg]) ELSE out

RECURSIVE SetToSeq(_)
SetToSeq(S) == IF S = {} THEN <<>>
               ELSE LET x == CHOOSE y \in S : TRUE IN <<x>> \o SetToSeq(S \ {x})

\* broadcastToUser: every socket of the user's set whose clientId differs from
\* excludeClientId and whose readyState is OPEN
broadcastToUser(socks, conns, out, userId, message, excludeClientId) ==
    IF userId \notin DOMAIN conns THEN out
    ELSE LET targets == SetToSeq({w \in conns[userId] :
                                     /\ socks[w].clientId # excludeClientId
                                     /\ socks[w].readyState = "OPEN"})
         IN out \o [i \in 1..Len(targets) |-> [to |-> targets[i], msg |-> message]]

AuthRequired == [type |-> "error", code |-> "AUTH_REQUIRED", message |-> "Not authenticated"]

ServerError(requestId, message) ==
    [type |-> "error", requestId |-> requestId, code |-> "SERVER_ERROR", message |-> message]

IsFullSync_ZeroOnly(lastSyncVersion, currentVersion) == lastSyncVersion = 0

\* handleSyncRequest: lastSyncVersion === 0 || lastSyncVersion >= currentVersion
IsFullSync(lastSyncVersion, currentVersion) ==
    lastSyncVersion = 0 \/ lastSyncVersion >= currentVersion

\* handleSyncRequest: the one frame it writes
SyncAnswer(d, userId, lastSyncVersion) ==
    LET currentVersion == getSyncVersion(d, userId) IN
    IF IsFullSync(lastSyncVersion, currentVersion)
    THEN [type |-> "sync_full", bookmarks |-> getAllBookmarks(d, userId),
          syncVersion |-> currentVersion]
    ELSE [type |-> "sync_incremental",
          events |-> getSyncEventsSince(d, userId, lastSyncVersion),
          currentVersion |-> currentVersion]

(* ------------------------------ histories ----------------------------- *)

Succeeded(r) == r.kind \in {"ok", "success"}

\* after a store call on bookmark id of user u
Count(op, u, id, r) ==
    /\ successes' = IF op = "create" THEN [successes EXCEPT ![id] = 0]
                    ELSE IF Succeeded(r) THEN [successes EXCEPT ![id] = @ + 1]
                    ELSE successes
    /\ mutations' = IF Succeeded(r) THEN [mutations EXCEPT ![u] = @ + 1] ELSE mutations
    /\ applied' = IF Succeeded(r) THEN applied + 1 ELSE applied
    /\ UNCHANGED <<wiped, pager>>

\* after clearAllBookmarks(u)
CountClear(u) ==
    /\ successes' = [i \in DOMAIN successes |->
                        IF HasBookmark(db, i, u) THEN 0 ELSE successes[i]]
    /\ mutations' = [mutations EXCEPT ![u] = 0]
    /\ wiped' = [wiped EXCEPT ![u] = IF getSyncVersion(db, u) > @
                                      THEN getSyncVersion(db, u) ELSE @]
    /\ UNCHANGED <<applied, pager>>

NoResult == [kind |-> "none"]
NoReply == [status |-> 0]
NoPager == [user |-> NoUser, start |-> 0, cursor |-> 0, got |-> <<>>, fetches |-> 0,
            lastLen |-> 0, done |-> FALSE]

Room == applied < MaxMutations

(* ------------------- the extension: pure functions -------------------- *)

\* uploads of one request
BATCH_SIZE == 50

\* the account the extension logs in to; its token is the one verifyToken maps
\* to that user
ExtUser == "u1"

\* chrome.bookmarks: the root "0", the bookmarks bar "1" below it, a folder
\* "5" in the bar and a link "6" in the folder or in the bar. A node without
\* url (a folder) has url NULL.
RootId == "0"
LinkId == "6"
LinkParents == {"1", "5"}
LinkTitles == {"a", "b"}
BarNode == [parentId |-> RootId, title |-> "bar", url |-> NULL, index |-> 0]
FolderNode == [parentId |-> "1", title |-> "f", url |-> NULL, index |-> 0]
LinkNode(parentId, title) ==
    [parentId |-> parentId, title |-> title, url |-> "u",
     index |-> IF parentId = "1" THEN 1 ELSE 0]
FolderTree == [n \in {"1", "5"} |-> IF n = "1" THEN BarNode ELSE FolderNode]
LinkTree(parentId, title) ==
    [n \in {"1", "5", LinkId} |->
        IF n = "1" THEN BarNode ELSE IF n = "5" THEN FolderNode
        ELSE LinkNode(parentId, title)]

\* the children of a node, by index
RECURSIVE ByIndex(_, _)
ByIndex(t, S) ==
    IF S = {} THEN <<>>
    ELSE LET n == CHOOSE x \in S : \A y \in S : t[x].index <= t[y].index
         IN <<n>> \o ByIndex(t, S \ {n})
Children(t, parentId) == ByIndex(t, {n \in DOMAIN t : t[n].parentId = parentId})

\* flattenBookmarks, called on the children of the root (the root itself is
\* skipped): depth first, each node before its children
RECURSIVE flattenBookmarks(_, _, _)
flattenBookmarks(t, nodes, depth) ==
    IF nodes = <<>> THEN <<>>
    ELSE LET n == Head(nodes) IN
         <<[id |-> n, parentId |-> t[n].parentId, title |-> t[n].title,
            url |-> t[n].url, index |-> t[n].index, depth |-> depth]>>
         \o flattenBookmarks(t, Children(t, n), depth + 1)
         \o flattenBookmarks(t, Tail(nodes), depth)

\* chrome.bookmarks.getTree() flattened
LocalBookmarks(t) == flattenBookmarks(t, Children(t, RootId), 1)

\* bookmarks.filter(b => !localToRemoteId.has(b.id))
Unsynced_All(flat, map) == flat
Unsynced(flat, map) == SelectSeq(flat, LAMBDA b : b.id \notin DOMAIN map)

\* slice(i, i + BATCH_SIZE) for i = 0, BATCH_SIZE, ...
RECURSIVE Slices(_)
Slices(s) ==
    IF s = <<>> THEN <<>>
    ELSE IF Len(s) <= BATCH_SIZE THEN <<s>>
    ELSE <<SubSeq(s, 1, BATCH_SIZE)>> \o Slices(SubSeq(s, BATCH_SIZE + 1, Len(s)))

\* the depth groups in ascending depth, each cut into batches: the requests of
\* a run in the order the loops issue them
RECURSIVE Batches(_, _)
Batches(flat, depths) ==
    IF depths = {} THEN <<>>
    ELSE LET d == CHOOSE x \in depths : \A y \in depths : x <= y
         IN Slices(SelectSeq(flat, LAMBDA b : b.depth = d)) \o Batches(flat, depths \ {d})
BatchesOf(flat) == Batches(flat, {flat[i].depth : i \in 1..Len(flat)})

\* localToRemoteId.get(parentId) || null, null for a child of the root
RemoteParent(map, parentId) ==
    IF parentId # RootId /\ parentId \in DOMAIN map THEN map[parentId] ELSE NULL

\* the payload of uploadBookmarkBatch, uploadBookmarkSingle and onBookmarkCreated
Payload(map, b) ==
    [localId |-> b.id, parentId |-> RemoteParent(map, b.parentId), title |-> b.title,
     url |-> b.url, isFolder |-> b.url = NULL, sortOrder |-> b.index]

\* localToRemoteId.set(localId, remoteId) for every item of a batch response
SetMappings(map, results) ==
    LET got == {results[i].localId : i \in 1..Len(results)}
    IN [l \in DOMAIN map \cup got |->
          IF l \in got
          THEN (CHOOSE r \in {results[i] : i \in 1..Len(results)} : r.localId = l).id
          ELSE map[l]]

\* a map without one key
Without(map, l) == [k \in DOMAIN map \ {l} |-> map[k]]

NoRun == [kind |-> "none", pc |-> "idle", queue |-> <<>>, localAtStart |-> {},
          mappedAtStart |-> {}, cleared |-> FALSE, requests |-> <<>>,
          afterInterrupt |-> FALSE, interrupted |-> FALSE, started |-> 0]

\* no handler besides the sync run is in flight
NoTasks == [logout |-> "idle", restore |-> "idle", created |-> "idle", remote |-> NULL,
            refused |-> FALSE]

\* a browser whose extension is not logged in
ExtLoggedOut ==
    /\ tree = FolderTree
    /\ localToRemoteId = <<>>
    /\ idMapStorage = <<>>
    /\ authToken = NULL
    /\ isSyncing = FALSE
    /\ run = NoRun
    /\ edits = 0
    /\ stateRestored = FALSE
    /\ settingsStorage = NULL
    /\ tasks = NoTasks

(* -------------------------------- Init -------------------------------- *)

Init ==
    /\ db = [bookmarks |-> <<>>, sync_events |-> <<>>,
             sync_versions |-> [u \in Users |-> 0]]
    /\ nextId = 0
    /\ sockets = [w \in Conns |->
                    [readyState |-> "NEW", userId |-> NoUser, clientId |-> NoClient,
                     closeCode |-> 0, isAlive |-> FALSE]]
    /\ userConnections = <<>>
    /\ result = NoResult
    /\ sent = <<>>
    /\ reply = NoReply
    /\ successes = [i \in BookmarkIds |-> 0]
    /\ mutations = [u \in Users |-> 0]
    /\ wiped = [u \in Users |-> 0]
    /\ applied = 0
    /\ pager = NoPager
    /\ probe = [w \in Conns |-> "idle"]
    /\ inflight = <<>>
    /\ delivered = <<>>
    /\ ExtLoggedOut

(* ------------------------------ REST routes --------------------------- *)

\* router.post('/clear')
RestClear(u) ==
    /\ db' = clearAllBookmarks(db, u)
    /\ CountClear(u)
    /\ result' = NoResult
    /\ reply' = [status |-> 200, body |-> [success |-> TRUE]]
    /\ sent' = <<>>
    /\ UNCHANGED <<nextId, sockets, userConnections>>

\* the object router.post('/') and router.post('/batch') hand to createBookmark:
\* the body's store fields, an empty title replaced by the default one
CreateData(body) ==
    [parentId |-> body.parentId,
     title |-> IF body.title = "" THEN DefaultTitle ELSE body.title,
     url |-> body.url, isFolder |-> body.isFolder, sortOrder |-> body.sortOrder]

\* router.post('/')
RouteCreate(u, data) ==
    /\ LET id == IdPool[nextId + 1]
           r == createBookmark(db, id, u, CreateData(data), ApiClient)
       IN /\ db' = r.db
          /\ result' = r.result
          /\ Count("create", u, id, r.result)
          /\ reply' = [status |-> 201,
                       body |-> [bookmark |-> r.result.bookmark,
                                 syncVersion |-> r.result.syncVersion]]
    /\ nextId' = nextId + 1
    /\ sent' = <<>>
    /\ UNCHANGED <<sockets, userConnections>>

RestCreate(u, data) == Room /\ nextId < MaxBookmarkIds /\ RouteCreate(u, data)

RestAnswer_Surfaces(r) ==
    IF r.kind = "conflict" THEN [status |-> 409, body |-> [error |-> "Version conflict"]]
    ELSE IF r.kind = "throw" THEN [status |-> 404, body |-> [error |-> r.message]]
    ELSE [status |-> 200, body |-> [bookmark |-> r.bookmark, syncVersion |-> r.syncVersion]]

RestAnswer_NotFoundOk(r) ==
    IF r.kind = "conflict" THEN [status |-> 200, body |-> [success |-> TRUE]]
    ELSE IF r.kind = "throw" THEN [status |-> 200, body |-> [success |-> TRUE]]
    ELSE [status |-> 200, body |-> [bookmark |-> r.bookmark, syncVersion |-> r.syncVersion]]

\* what router.put('/:id'), router.patch('/:id') and router.put('/:id/move')
\* answer after the store call
RestAnswer(r) ==
    IF r.kind = "conflict" THEN [status |-> 200, body |-> [success |-> TRUE]]
    ELSE IF r.kind = "throw" THEN [status |-> 404, body |-> [error |-> r.message]]
    ELSE [status |-> 200, body |-> [bookmark |-> r.bookmark, syncVersion |-> r.syncVersion]]

\* router.put('/:id') and router.patch('/:id'); expectedVersion is
\* data.expectedVersion ?? 0
RouteUpdate(u, id, data, expectedVersion) ==
    /\ LET r == updateBookmark(db, id, u, data, expectedVersion, ApiClient)
       IN /\ db' = r.db
          /\ result' = r.result
          /\ Count("update", u, id, r.result)
          /\ reply' = RestAnswer(r.result)
    /\ sent' = <<>>
    /\ UNCHANGED <<nextId, sockets, userConnections>>

RestUpdate(u, id, data, expectedVersion) == Room /\ RouteUpdate(u, id, data, expectedVersion)

\* router.put('/:id/move'): expectedVersion is the literal 0
RouteMove(u, id, parentId, sortOrder) ==
    /\ LET r == moveBookmark(db, id, u, parentId, sortOrder, 0, ApiClient)
       IN /\ db' = r.db
          /\ result' = r.result
          /\ Count("move", u, id, r.result)
          /\ reply' = RestAnswer(r.result)
    /\ sent' = <<>>
    /\ UNCHANGED <<nextId, sockets, userConnections>>

RestMove(u, id, parentId, sortOrder) == Room /\ RouteMove(u, id, parentId, sortOrder)

\* router.delete('/:id'): a conflict and 'Bookmark not found' both answer
\* {success: true}
RouteDelete(u, id, expectedVersion) ==
    /\ LET r == deleteBookmark(db, id, u, expectedVersion, ApiClient)
       IN /\ db' = r.db
          /\ result' = r.result
          /\ Count("delete", u, id, r.result)
          /\ reply' = IF r.result.kind = "success"
                      THEN [status |-> 200,
                            body |-> [success |-> TRUE,
                                      syncVersion |-> r.result.syncVersion]]
                      ELSE [status |-> 200, body |-> [success |-> TRUE]]
    /\ sent' = <<>>
    /\ UNCHANGED <<nextId, sockets, userConnections>>

RestDelete(u, id, expectedVersion) == Room /\ RouteDelete(u, id, expectedVersion)

\* batchCreateSchema.parse: every item carries the required keys (localId
\* and favicon are optional)
RequiredKeys == {"parentId", "title", "url", "isFolder", "sortOrder"}
BatchValid(body) ==
    \A i \in 1..Len(body.bookmarks) : RequiredKeys \subseteq DOMAIN body.bookmarks[i]

\* one entry of the results array: localId is the item's, undefined when absent
BatchResult(id, item) ==
    IF "localId" \in DOMAIN item THEN [id |-> id, localId |-> item.localId]
    ELSE [id |-> id]

RECURSIVE createBatch_OneVersion(_, _, _, _)
createBatch_OneVersion(d, n, userId, items) ==
    IF items = <<>> THEN [db |-> d, results |-> <<>>]
    ELSE LET r == createBookmark(d, IdPool[n + 1], userId, CreateData(Head(items)), ApiClient)
             rest == createBatch_OneVersion([r.db EXCEPT !.sync_versions = d.sync_versions],
                                            n + 1, userId, Tail(items))
         IN [db |-> rest.db,
             results |-> <<BatchResult(r.result.bookmark.id, Head(items))>> \o rest.results]

\* the loop of router.post('/batch'): one createBookmark per item, in array
\* order; n ids have been handed out before
RECURSIVE createBatch(_, _, _, _)
createBatch(d, n, userId, items) ==
    IF items = <<>> THEN [db |-> d, results |-> <<>>]
    ELSE LET r == createBookmark(d, IdPool[n + 1], userId, CreateData(Head(items)), ApiClient)
             rest == createBatch(r.db, n + 1, userId, Tail(items))
         IN [db |-> rest.db,
             results |-> <<BatchResult(r.result.bookmark.id, Head(items))>> \o rest.results]

\* the histories after a batch that created the rows ids for user u
CountBatch(u, ids) ==
    /\ successes' = [i \in DOMAIN successes |-> IF i \in ids THEN 0 ELSE successes[i]]
    /\ mutations' = [mutations EXCEPT ![u] = @ + Cardinality(ids)]
    /\ applied' = applied + Cardinality(ids)
    /\ UNCHANGED <<wiped, pager>>

\* router.post('/batch'): a body the schema rejects is answered 400 before the
\* loop starts
RouteBatch(u, body) ==
    /\ nextId + Len(body.bookmarks) <= Len(IdPool)
    /\ IF BatchValid(body)
       THEN LET r == createBatch(db, nextId, u, body.bookmarks)
                n == Len(body.bookmarks)
            IN /\ db' = r.db
               /\ nextId' = nextId + n
               /\ CountBatch(u, {IdPool[i] : i \in (nextId + 1)..(nextId + n)})
               /\ reply' = [status |-> 201,
                            body |-> [bookmarks |-> r.results, count |-> Len(r.results)]]
       ELSE /\ reply' = [status |-> 400, body |-> [error |-> "Invalid input"]]
            /\ UNCHANGED <<db, nextId, successes, mutations, wiped, applied, pager>>
    /\ result' = NoResult
    /\ sent' = <<>>
    /\ UNCHANGED <<sockets, userConnections>>

\* router.get('/:id')
RouteGet(u, id) ==
    /\ reply' = IF HasBookmark(db, id, u)
                THEN [status |-> 200, body |-> getBookmarkById(db, id, u)]
                ELSE [status |-> 404, body |-> [error |-> "Bookmark not found"]]
    /\ result' = NoResult
    /\ sent' = <<>>
    /\ UNCHANGED <<db, nextId, sockets, userConnections, successes, mutations, wiped,
                   applied, pager>>

\* authMiddleware: a request without a valid token is answered 401 before
\* any route runs
Unauthorized ==
    /\ reply' = [status |-> 401, body |-> [error |-> "Invalid token"]]
    /\ result' = NoResult
    /\ sent' = <<>>
    /\ UNCHANGED <<db, nextId, sockets, userConnections, successes, mutations, wiped,
                   applied, pager>>

(* --------------------------- WebSocket handlers ----------------------- *)

\* A frame is served on a socket whose readyState is OPEN.
Open(w) == sockets[w].readyState = "OPEN"
Authed(w) == sockets[w].userId # NoUser

RequestId == "r1"

\* wss.on('connection')
WsConnection(w) ==
    /\ sockets[w].readyState = "NEW"
    /\ sockets' = [sockets EXCEPT ![w].readyState = "OPEN", ![w].isAlive = TRUE]
    /\ sent' = sendMessage(sockets', <<>>, w, [type |-> "auth_required"])
    /\ result' = NoResult
    /\ reply' = NoReply
    /\ UNCHANGED <<db, nextId, userConnections, successes, mutations, wiped, applied, pager>>

\* ws.on('close'): the socket leaves the set of its current userId only
WsClose(w) ==
    /\ sockets[w].readyState \in {"OPEN", "CLOSING"}
    /\ sockets' = [sockets EXCEPT ![w].readyState = "CLOSED"]
    /\ userConnections' =
         LET u == sockets[w].userId IN
         IF u # NoUser /\ u \in DOMAIN userConnections
         THEN IF userConnections[u] \ {w} = {}
              THEN [x \in DOMAIN userConnections \ {u} |-> userConnections[x]]
              ELSE [userConnections EXCEPT ![u] = @ \ {w}]
         ELSE userConnections
    /\ result' = NoResult
    /\ reply' = NoReply
    /\ sent' = <<>>
    /\ UNCHANGED <<db, nextId, successes, mutations, wiped, applied, pager>>

\* handleAuth
WsAuth(w, token, clientId) ==
    /\ Open(w)
    /\ LET payload == verifyToken(token) IN
       IF payload = NULL
       THEN /\ sent' = sendMessage(sockets, <<>>, w,
                                   [type |-> "auth_error", message |-> "Invalid token"])
            /\ sockets' = [sockets EXCEPT ![w].readyState = "CLOSING",
                                          ![w].closeCode = AuthFailedCode]
            /\ UNCHANGED userConnections
       ELSE /\ sockets' = [sockets EXCEPT ![w].userId = payload, ![w].clientId = clientId]
            /\ userConnections' =
                 [u \in DOMAIN userConnections \cup {payload} |->
                    IF u = payload
                    THEN (IF u \in DOMAIN userConnections
                          THEN userConnections[u] ELSE {}) \cup {w}
                    ELSE userConnections[u]]
            /\ sent' = sendMessage(sockets', <<>>, w,
                                   [type |-> "auth_success", userId |-> payload])
    /\ result' = NoResult
    /\ reply' = NoReply
    /\ UNCHANGED <<db, nextId, successes, mutations, wiped, applied, pager>>

\* case 'ping'
WsPing(w) ==
    /\ Open(w)
    /\ sent' = sendMessage(sockets, <<>>, w, [type |-> "pong"])
    /\ result' = NoResult
    /\ reply' = NoReply
    /\ UNCHANGED <<db, nextId, sockets, userConnections, successes, mutations, wiped, applied, pager>>

WsInvalid_Closes(w, why) ==
    /\ Open(w)
    /\ sent' = sendMessage(sockets, <<>>, w,
                           [type |-> "error", code |-> "INVALID_REQUEST", message |-> why])
    /\ sockets' = [sockets EXCEPT ![w].readyState = "CLOSING"]
    /\ result' = NoResult
    /\ reply' = NoReply
    /\ UNCHANGED <<db, nextId, userConnections, successes, mutations, wiped, applied, pager>>

\* JSON.parse throws, or the default case of handleMessage
WsInvalid(w, why) ==
    /\ Open(w)
    /\ sent' = sendMessage(sockets, <<>>, w,
                           [type |-> "error", code |-> "INVALID_REQUEST", message |-> why])
    /\ result' = NoResult
    /\ reply' = NoReply
    /\ UNCHANGED <<db, nextId, sockets, userConnections, successes, mutations, wiped, applied, pager>>

Refuse_Silent(w) ==
    /\ ~Authed(w)
    /\ sent' = <<>>
    /\ result' = NoResult
    /\ reply' = NoReply
    /\ UNCHANGED <<db, nextId, sockets, userConnections, successes, mutations, wiped, applied, pager>>

\* the guard every other case of handleMessage starts with: !ws.userId
Refuse(w) ==
    /\ ~Authed(w)
    /\ sent' = sendMessage(sockets, <<>>, w, AuthRequired)
    /\ result' = NoResult
    /\ reply' = NoReply
    /\ UNCHANGED <<db, nextId, sockets, userConnections, successes, mutations, wiped, applied, pager>>

\* case 'sync_request' and handleSyncRequest
WsSyncRequest(w, lastSyncVersion) ==
    /\ Open(w)
    /\ \/ Refuse(w)
       \/ /\ Authed(w)
          /\ LET u == sockets[w].userId
                 answer == SyncAnswer(db, u, lastSyncVersion)
             IN /\ sent' = sendMessage(sockets, <<>>, w, answer)
          /\ result' = NoResult
          /\ reply' = NoReply
          /\ UNCHANGED <<db, nextId, sockets, userConnections, successes, mutations,
                         wiped, applied, pager>>

\* case 'sync_clear': no frame is written
WsSyncClear(w) ==
    /\ Open(w)
    /\ \/ Refuse(w)
       \/ /\ Authed(w)
          /\ LET u == sockets[w].userId
             IN /\ db' = clearAllBookmarks(db, u)
                /\ CountClear(u)
          /\ sent' = <<>>
          /\ result' = NoResult
          /\ reply' = NoReply
          /\ UNCHANGED <<nextId, sockets, userConnections>>

\* the sync_incremental frame the mutation handlers broadcast
Broadcast_Unversioned(type, id, data, clientId, syncVersion) ==
    [type |-> "sync_incremental",
     events |-> <<[type |-> type, bookmarkId |-> id, data |-> data,
                   clientId |-> clientId, syncVersion |-> 0]>>,
     currentVersion |-> 0]

Broadcast(type, id, data, clientId, syncVersion) ==
    [type |-> "sync_incremental",
     events |-> <<[type |-> type, bookmarkId |-> id, data |-> data,
                   clientId |-> clientId, syncVersion |-> syncVersion]>>,
     currentVersion |-> syncVersion]

WsFrames_BroadcastFirst(w, type, id, r, clientVersion, eventData) ==
    LET u == sockets[w].userId
        c == sockets[w].clientId
    IN
    IF r.kind = "conflict"
    THEN sendMessage(sockets, <<>>, w,
                     [type |-> "conflict", requestId |-> RequestId, id |-> id,
                      serverVersion |-> r.serverVersion, clientVersion |-> clientVersion])
    ELSE IF r.kind = "throw"
    THEN sendMessage(sockets, <<>>, w, ServerError(RequestId, r.message))
    ELSE sendMessage(sockets,
                     broadcastToUser(sockets, userConnections, <<>>, u,
                                     Broadcast(type, id, eventData, c, r.syncVersion), c),
                     w,
                     [type |-> "bookmark_ack", requestId |-> RequestId,
                      id |-> id, syncVersion |-> r.syncVersion])

\* what handleBookmarkCreate/Update/Delete/Move write after the store call:
\* a conflict frame, or an error frame for a throw, or the ack to the sender
\* followed by the broadcast to the user's other sockets
WsFrames(w, type, id, r, clientVersion, eventData) ==
    LET u == sockets[w].userId
        c == sockets[w].clientId
    IN
    IF r.kind = "conflict"
    THEN sendMessage(sockets, <<>>, w,
                     [type |-> "conflict", requestId |-> RequestId, id |-> id,
                      serverVersion |-> r.serverVersion, clientVersion |-> clientVersion])
    ELSE IF r.kind = "throw"
    THEN sendMessage(sockets, <<>>, w, ServerError(RequestId, r.message))
    ELSE broadcastToUser(sockets, userConnections,
                         sendMessage(sockets, <<>>, w,
                                     [type |-> "bookmark_ack", requestId |-> RequestId,
                                      id |-> id, syncVersion |-> r.syncVersion]),
                         u, Broadcast(type, id, eventData, c, r.syncVersion), c)

\* case 'bookmark_create' and handleBookmarkCreate
WsBookmarkCreate(w, data) ==
    /\ Open(w)
    /\ \/ Refuse(w)
       \/ /\ Authed(w)
          /\ Room /\ nextId < MaxBookmarkIds
          /\ LET u == sockets[w].userId
                 id == IdPool[nextId + 1]
                 r == createBookmark(db, id, u, data, sockets[w].clientId)
             IN /\ db' = r.db
                /\ result' = r.result
                /\ Count("create", u, id, r.result)
                /\ sent' = WsFrames(w, "create", id, r.result, data, r.result.bookmark)
          /\ nextId' = nextId + 1
          /\ reply' = NoReply
          /\ UNCHANGED <<sockets, userConnections>>

\* case 'bookmark_update' and handleBookmarkUpdate
WsBookmarkUpdate(w, id, data, expectedVersion) ==
    /\ Open(w)
    /\ \/ Refuse(w)
       \/ /\ Authed(w)
          /\ Room
          /\ LET u == sockets[w].userId
                 r == updateBookmark(db, id, u, data, expectedVersion, sockets[w].clientId)
             IN /\ db' = r.db
                /\ result' = r.result
                /\ Count("update", u, id, r.result)
                /\ sent' = WsFrames(w, "update", id, r.result, data, data)
          /\ reply' = NoReply
          /\ UNCHANGED <<nextId, sockets, userConnections>>

\* case 'bookmark_delete' and handleBookmarkDelete
WsBookmarkDelete(w, id, expectedVersion) ==
    /\ Open(w)
    /\ \/ Refuse(w)
       \/ /\ Authed(w)
          /\ Room
          /\ LET u == sockets[w].userId
                 r == deleteBookmark(db, id, u, expectedVersion, sockets[w].clientId)
             IN /\ db' = r.db
                /\ result' = r.result
                /\ Count("delete", u, id, r.result)
                /\ sent' = WsFrames(w, "delete", id, r.result, <<>>, <<>>)
          /\ reply' = NoReply
          /\ UNCHANGED <<nextId, sockets, userConnections>>

\* case 'bookmark_move' and handleBookmarkMove
WsBookmarkMove(w, id, newParentId, newIndex, expectedVersion) ==
    /\ Open(w)
    /\ \/ Refuse(w)
       \/ /\ Authed(w)
          /\ Room
          /\ LET u == sockets[w].userId
                 r == moveBookmark(db, id, u, newParentId, newIndex, expectedVersion,
                                   sockets[w].clientId)
                 patch == [parentId |-> newParentId, sortOrder |-> newIndex]
             IN /\ db' = r.db
                /\ result' = r.result
                /\ Count("move", u, id, r.result)
                /\ sent' = WsFrames(w, "move", id, r.result, patch, patch)
          /\ reply' = NoReply
          /\ UNCHANGED <<nextId, sockets, userConnections>>

(* ---------------------------- specification --------------------------- *)

Next ==
    \/ \E u \in Users : RestClear(u) /\ Outside
    \/ \E u \in Users, data \in CreateInputs : RestCreate(u, data) /\ Outside
    \/ \E u \in Users, id \in BookmarkIds, data \in Patches, ev \in ExpectedVersions :
          RestUpdate(u, id, data, ev) /\ Outside
    \/ \E u \in Users, id \in BookmarkIds, p \in MoveParents,
          so \in SortOrders : RestMove(u, id, p, so) /\ Outside
    \/ \E u \in Users, id \in BookmarkIds, ev \in ExpectedVersions : RestDelete(u, id, ev) /\ Outside
    \/ \E w \in Conns : WsConnection(w) /\ Outside
    \/ \E w \in Conns : WsClose(w) /\ Outside
    \/ \E w \in Conns, t \in Tokens, c \in ClientIds : WsAuth(w, t, c) /\ Outside
    \/ \E w \in Conns : WsPing(w) /\ Outside
    \/ \E w \in Conns, why \in InvalidReasons : WsInvalid(w, why) /\ Outside
    \/ \E w \in Conns, v \in CursorValues : WsSyncRequest(w, v) /\ Outside
    \/ \E w \in Conns : WsSyncClear(w) /\ Outside
    \/ \E w \in Conns, data \in CreateInputs : WsBookmarkCreate(w, data) /\ Outside
    \/ \E w \in Conns, id \in BookmarkIds, data \in Patches, ev \in ExpectedVersions :
          WsBookmarkUpdate(w, id, data, ev) /\ Outside
    \/ \E w \in Conns, id \in BookmarkIds, ev \in ExpectedVersions :
          WsBookmarkDelete(w, id, ev) /\ Outside
    \/ \E w \in Conns, id \in BookmarkIds, p \in MoveParents,
          so \in SortOrders, ev \in ExpectedVersions : WsBookmarkMove(w, id, p, so, ev) /\ Outside

Spec == Init /\ [][Next]_vars

(* ------------------------ paging through the log ---------------------- *)

\* A caller of getSyncEventsSince that re-requests with the last returned
\* syncVersion as its new cursor until a page is empty or short.
PageFetch ==
    /\ pager.user # NoUser
    /\ ~pager.done
    /\ LET page == getSyncEventsSince(db, pager.user, pager.cursor) IN
       pager' = [pager EXCEPT
                    !.got = @ \o [i \in 1..Len(page) |-> page[i].syncVersion],
                    !.cursor = IF page = <<>> THEN @ ELSE page[Len(page)].syncVersion,
                    !.fetches = @ + 1,
                    !.lastLen = Len(page),
                    !.done = Len(page) < EventPageLimit]
    /\ UNCHANGED <<db, nextId, sockets, userConnections, result, sent, reply,
                   successes, mutations, wiped, applied>>

\* The database after user u1 created bookmark b1 through the REST route and
\* then updated its title n - 1 times, each time with the row's version.
PagingDb(n) ==
    IF n = 0
    THEN [bookmarks |-> <<>>, sync_events |-> <<>>, sync_versions |-> [u \in Users |-> 0]]
    ELSE [bookmarks |->
            [i \in {"b1"} |->
                [id |-> "b1", user_id |-> "u1", parent_id |-> LinkData.parentId,
                 title |-> IF n = 1 THEN LinkData.title ELSE TitlePatch.title,
                 url |-> LinkData.url, is_folder |-> 0, sort_order |-> LinkData.sortOrder,
                 sync_version |-> n, is_deleted |-> 0, deleted_at |-> NULL]],
          sync_events |->
            [i \in 1..n |->
                [user_id |-> "u1", type |-> IF i = 1 THEN "create" ELSE "update",
                 bookmark_id |-> "b1",
                 data |-> IF i = 1 THEN LinkData @@ [id |-> "b1"] ELSE TitlePatch,
                 client_id |-> ApiClient, sync_version |-> i]],
          sync_versions |-> [u \in Users |-> IF u = "u1" THEN n ELSE 0]]

PagingSizes == {0, 1, EventPageLimit - 1, EventPageLimit, EventPageLimit + 1,
                MaxPages * EventPageLimit, MaxPages * EventPageLimit + 1}
PagingCursors == {0, 1, EventPageLimit}

\* socket w1 has connected and authenticated as u1
InitPaging ==
    /\ \E n \in PagingSizes :
          /\ db = PagingDb(n)
          /\ mutations = [u \in Users |-> IF u = "u1" THEN n ELSE 0]
          /\ successes = [i \in BookmarkIds |-> IF i = "b1" /\ n > 0 THEN n - 1 ELSE 0]
          /\ nextId = IF n = 0 THEN 0 ELSE 1
    /\ \E c \in PagingCursors :
          pager = [NoPager EXCEPT !.user = "u1", !.start = c, !.cursor = c]
    /\ sockets = [w \in Conns |->
                    [readyState |-> "OPEN", userId |-> "u1", clientId |-> "d1",
                     closeCode |-> 0, isAlive |-> TRUE]]
    /\ userConnections = [u \in {"u1"} |-> Conns]
    /\ result = NoResult
    /\ sent = <<>>
    /\ reply = NoReply
    /\ wiped = [u \in Users |-> 0]
    /\ applied = 0
    /\ probe = [w \in Conns |-> "idle"]
    /\ inflight = <<>>
    /\ delivered = <<>>
    /\ ExtLoggedOut

NextPaging ==
    \/ PageFetch /\ Outside
    \/ \E w \in Conns, v \in PagingCursors : WsSyncRequest(w, v) /\ Outside

SpecPaging == InitPaging /\ [][NextPaging]_vars

(* ------------------------- fan-out to two sockets --------------------- *)

\* successful mutations of a fan-out behaviour, the REST create included
MaxFanoutMutations == 2

FanoutConns == {"w1", "w2"}
FanoutClientIds == {"d1", "d2"}

\* user u1 has created bookmark b1 through router.post('/'); two sockets are
\* about to connect
InitFanout ==
    LET r == createBookmark([bookmarks |-> <<>>, sync_events |-> <<>>,
                             sync_versions |-> [u \in Users |-> 0]],
                            "b1", "u1", LinkData, ApiClient)
    IN /\ db = r.db
       /\ result = r.result
       /\ reply = [status |-> 201,
                   body |-> [bookmark |-> r.result.bookmark,
                             syncVersion |-> r.result.syncVersion]]
       /\ nextId = 1
       /\ sockets = [w \in FanoutConns |->
                       [readyState |-> "NEW", userId |-> NoUser, clientId |-> NoClient,
                        closeCode |-> 0, isAlive |-> FALSE]]
       /\ userConnections = <<>>
       /\ sent = <<>>
       /\ successes = [i \in BookmarkIds |-> 0]
       /\ mutations = [u \in Users |-> IF u = "u1" THEN 1 ELSE 0]
       /\ wiped = [u \in Users |-> 0]
       /\ applied = 1
       /\ pager = NoPager
       /\ probe = [w \in FanoutConns |-> "idle"]
       /\ inflight = <<>>
       /\ delivered = <<>>
       /\ ExtLoggedOut

\* the mutation handlers run while the behaviour has room for another mutation
FanoutRoom == applied < MaxFanoutMutations

NextFanout ==
    \/ \E w \in FanoutConns : WsConnection(w) /\ Outside
    \/ \E w \in FanoutConns : WsClose(w) /\ Outside
    \/ \E w \in FanoutConns, t \in Tokens, c \in FanoutClientIds : WsAuth(w, t, c) /\ Outside
    \/ \E w \in FanoutConns, data \in CreateInputs : FanoutRoom /\ WsBookmarkCreate(w, data) /\ Outside
    \/ \E w \in FanoutConns, id \in BookmarkIds, data \in Patches, ev \in ExpectedVersions :
          FanoutRoom /\ WsBookmarkUpdate(w, id, data, ev) /\ Outside
    \/ \E w \in FanoutConns, id \in BookmarkIds, ev \in ExpectedVersions :
          FanoutRoom /\ WsBookmarkDelete(w, id, ev) /\ Outside
    \/ \E w \in FanoutConns, id \in BookmarkIds, p \in MoveParents,
          so \in SortOrders, ev \in ExpectedVersions : FanoutRoom /\ WsBookmarkMove(w, id, p, so, ev) /\ Outside
    \/ \E u \in Users, data \in CreateInputs : FanoutRoom /\ RestCreate(u, data) /\ Outside
    \/ \E u \in Users, id \in BookmarkIds, data \in Patches, ev \in ExpectedVersions :
          FanoutRoom /\ RestUpdate(u, id, data, ev) /\ Outside
    \/ \E u \in Users, id \in BookmarkIds, p \in MoveParents, so \in SortOrders :
          FanoutRoom /\ RestMove(u, id, p, so) /\ Outside
    \/ \E u \in Users, id \in BookmarkIds, ev \in ExpectedVersions :
          FanoutRoom /\ RestDelete(u, id, ev) /\ Outside

SpecFanout == InitFanout /\ [][NextFanout]_vars

(* ------------------ two accounts on the REST routes ------------------- *)

\* successful mutations before the last request of a behaviour
MaxStoreMutations == 2
\* how many ids crypto.randomUUID() hands out in one such behaviour
MaxStoreIds == 3
\* the longest bookmarks array of a batch body
MaxBatch == 2

StoreIds == {IdPool[i] : i \in 1..MaxStoreIds}

\* bodies createSchema accepts: a link, a folder, and isFolder true with a url
FolderData == [parentId |-> NULL, title |-> "f", url |-> NULL, isFolder |-> TRUE, sortOrder |-> 0]
FolderWithUrl == [parentId |-> NULL, title |-> "f", url |-> "u", isFolder |-> TRUE, sortOrder |-> 0]
ShapeInputs == { LinkData, FolderData, FolderWithUrl }

\* bodies updateSchema accepts
UrlPatch == [url |-> NULL]
ShapePatches == { TitlePatch, UrlPatch }

\* items of a batch body: with and without localId; one that the schema
\* rejects (no title)
BatchItems == { LinkData @@ [localId |-> "6"], FolderData }
BadItem == [parentId |-> NULL, url |-> "u", isFolder |-> FALSE, sortOrder |-> 0]
SeqsUpTo(S, n) == UNION { [1..k -> S] : k \in 0..n }
BatchBodies ==
    { [bookmarks |-> items] : items \in SeqsUpTo(BatchItems, MaxBatch) }
    \cup { [bookmarks |-> <<LinkData, BadItem>>] }

StoreRoom == applied < MaxStoreMutations

InitStore ==
    /\ db = [bookmarks |-> <<>>, sync_events |-> <<>>,
             sync_versions |-> [u \in Users |-> 0]]
    /\ nextId = 0
    /\ sockets = [w \in Conns |->
                    [readyState |-> "NEW", userId |-> NoUser, clientId |-> NoClient,
                     closeCode |-> 0, isAlive |-> FALSE]]
    /\ userConnections = <<>>
    /\ result = NoResult
    /\ sent = <<>>
    /\ reply = NoReply
    /\ successes = [i \in StoreIds |-> 0]
    /\ mutations = [u \in Users |-> 0]
    /\ wiped = [u \in Users |-> 0]
    /\ applied = 0
    /\ pager = NoPager
    /\ probe = [w \in Conns |-> "idle"]
    /\ inflight = <<>>
    /\ delivered = <<>>
    /\ ExtLoggedOut

NextStore ==
    \/ \E u \in Users : RestClear(u) /\ Outside
    \/ \E u \in Users, data \in ShapeInputs :
          StoreRoom /\ nextId < MaxStoreIds /\ RouteCreate(u, data) /\ Outside
    \/ \E u \in Users, body \in BatchBodies :
          StoreRoom /\ nextId + Len(body.bookmarks) <= MaxStoreIds
             /\ RouteBatch(u, body) /\ Outside
    \/ \E u \in Users, id \in StoreIds : RouteGet(u, id) /\ Outside
    \/ \E u \in Users, id \in StoreIds, data \in ShapePatches, ev \in ExpectedVersions :
          StoreRoom /\ RouteUpdate(u, id, data, ev) /\ Outside
    \/ \E u \in Users, id \in StoreIds, p \in MoveParents, so \in SortOrders :
          StoreRoom /\ RouteMove(u, id, p, so) /\ Outside
    \/ \E u \in Users, id \in StoreIds, ev \in ExpectedVersions :
          StoreRoom /\ RouteDelete(u, id, ev) /\ Outside
    \/ \E w \in Conns : WsConnection(w) /\ Outside
    \/ \E w \in Conns, t \in Tokens, c \in ClientIds : WsAuth(w, t, c) /\ Outside
    \/ \E w \in Conns, v \in CursorValues : WsSyncRequest(w, v) /\ Outside
    \/ \E w \in Conns : WsSyncClear(w) /\ Outside
    \/ \E w \in Conns, data \in ShapeInputs :
          StoreRoom /\ WsBookmarkCreate(w, data) /\ Outside
    \/ \E w \in Conns, id \in StoreIds, data \in ShapePatches, ev \in ExpectedVersions :
          StoreRoom /\ WsBookmarkUpdate(w, id, data, ev) /\ Outside
    \/ \E w \in Conns, id \in StoreIds, ev \in ExpectedVersions :
          StoreRoom /\ WsBookmarkDelete(w, id, ev) /\ Outside
    \/ \E w \in Conns, id \in StoreIds, p \in MoveParents,
          so \in SortOrders, ev \in ExpectedVersions :
          StoreRoom /\ WsBookmarkMove(w, id, p, so, ev) /\ Outside

SpecStore == InitStore /\ [][NextStore]_vars

(* ------------------------------ heartbeat ----------------------------- *)

\* wss.clients: the sockets the server accepted whose 'close' event has not
\* been emitted yet
Clients == { w \in DOMAIN sockets : sockets[w].readyState \in {"OPEN", "CLOSING"} }

\* one firing of the heartbeat interval: every client that has not answered
\* since the last firing is terminated (its socket is destroyed at once and
\* its 'close' event follows), every other client is marked and pinged
HeartbeatTick ==
    /\ sockets' = [w \in DOMAIN sockets |->
                     IF w \notin Clients THEN sockets[w]
                     ELSE IF ~sockets[w].isAlive
                          THEN [sockets[w] EXCEPT !.readyState = "CLOSING"]
                          ELSE [sockets[w] EXCEPT !.isAlive = FALSE]]
    /\ probe' = [w \in DOMAIN probe |->
                   IF w \notin Clients THEN probe[w]
                   ELSE IF ~sockets[w].isAlive THEN "terminated" ELSE "probed"]
    /\ sent' = <<>>
    /\ result' = NoResult
    /\ reply' = NoReply
    /\ UNCHANGED <<db, nextId, userConnections, successes, mutations, wiped, applied, pager>>

\* a pong frame of socket w arrives; a destroyed socket delivers none
WsPong(w) ==
    /\ w \in Clients
    /\ probe[w] # "terminated"
    /\ sockets' = [sockets EXCEPT ![w].isAlive = TRUE]
    /\ probe' = [probe EXCEPT ![w] = "idle"]
    /\ sent' = <<>>
    /\ result' = NoResult
    /\ reply' = NoReply
    /\ UNCHANGED <<db, nextId, userConnections, successes, mutations, wiped, applied, pager>>

InitHeartbeat ==
    /\ db = [bookmarks |-> <<>>, sync_events |-> <<>>,
             sync_versions |-> [u \in Users |-> 0]]
    /\ nextId = 0
    /\ sockets = [w \in FanoutConns |->
                    [readyState |-> "NEW", userId |-> NoUser, clientId |-> NoClient,
                     closeCode |-> 0, isAlive |-> FALSE]]
    /\ userConnections = <<>>
    /\ result = NoResult
    /\ sent = <<>>
    /\ reply = NoReply
    /\ successes = [i \in BookmarkIds |-> 0]
    /\ mutations = [u \in Users |-> 0]
    /\ wiped = [u \in Users |-> 0]
    /\ applied = 0
    /\ pager = NoPager
    /\ probe = [w \in FanoutConns |-> "idle"]
    /\ inflight = <<>>
    /\ delivered = <<>>
    /\ ExtLoggedOut

NextHeartbeat ==
    \/ \E w \in FanoutConns : WsConnection(w) /\ Outside
    \/ \E w \in FanoutConns, t \in Tokens, c \in ClientIds : WsAuth(w, t, c) /\ Outside
    \/ \E w \in FanoutConns : WsPing(w) /\ Outside
    \/ \E w \in FanoutConns : WsClose(w) /\ Outside
    \/ HeartbeatTick /\ Quiet
    \/ \E w \in FanoutConns : WsPong(w) /\ Quiet

SpecHeartbeat == InitHeartbeat /\ [][NextHeartbeat]_vars

\* the interval keeps firing, and the 'close' event of a socket that is
\* closing or destroyed is emitted
FairHeartbeat ==
    /\ SpecHeartbeat
    /\ WF_vars(HeartbeatTick /\ Quiet)
    /\ \A w \in FanoutConns :
          WF_vars(sockets[w].readyState = "CLOSING" /\ WsClose(w) /\ Outside)

(* ----------------------- the extension: handlers ---------------------- *)

(* The service worker runs one handler at a time up to its next request to   *)
(* the server; a request and the code that follows its response are one      *)
(* step, and other handlers run between the steps of a sync run. The calls   *)
(* to chrome.storage and chrome.bookmarks are part of the step they are in.  *)
(* A request fails when the server answers 401; a fetch that throws is not   *)
(* modelled.                                                                 *)

\* how many ids the server hands out in one behaviour of the extension
MaxExtIds == 4
\* how many sync runs one behaviour of the extension starts
MaxExtRuns == 2
\* how many changes the user makes to the local tree in one behaviour
MaxLocalEdits == 2
ExtBookmarkIds == {IdPool[i] : i \in 1..MaxExtIds}

\* authMiddleware accepts the worker's token
ExtAuthorized == verifyToken(authToken) # NULL

FullSyncStart_Reentrant ==
    /\ run.started < MaxExtRuns
    /\ authToken # NULL
    /\ isSyncing' = TRUE
    /\ run' = [NoRun EXCEPT !.kind = "full", !.pc = "clear",
                            !.localAtStart = DOMAIN tree,
                            !.mappedAtStart = DOMAIN localToRemoteId,
                            !.interrupted = run.interrupted,
                            !.started = run.started + 1]
    /\ UNCHANGED <<edits, tree, localToRemoteId, idMapStorage, authToken, aside, stored, serverVars>>

\* SYNC_NOW: performFullSync up to its first request
FullSyncStart ==
    /\ run.started < MaxExtRuns
    /\ ~isSyncing /\ authToken # NULL
    /\ isSyncing' = TRUE
    /\ run' = [NoRun EXCEPT !.kind = "full", !.pc = "clear",
                            !.localAtStart = DOMAIN tree,
                            !.mappedAtStart = DOMAIN localToRemoteId,
                            !.interrupted = run.interrupted,
                            !.started = run.started + 1]
    /\ UNCHANGED <<edits, tree, localToRemoteId, idMapStorage, authToken, aside, stored, serverVars>>

\* performFullSync: POST /clear (its status is not read), then the map is
\* emptied and the tree is read, sorted by depth and cut into batches
FullSyncClear ==
    /\ run.kind = "full" /\ run.pc = "clear"
    /\ IF ExtAuthorized THEN RestClear(ExtUser) ELSE Unauthorized
    /\ localToRemoteId' = <<>>
    /\ run' = [run EXCEPT !.pc = "upload",
                          !.queue = BatchesOf(LocalBookmarks(tree)),
                          !.cleared = ExtAuthorized,
                          !.requests = Append(@, [route |-> "clear", ok |-> ExtAuthorized,
                                                  items |-> <<>>, results |-> <<>>])]
    /\ UNCHANGED <<edits, tree, idMapStorage, authToken, isSyncing, aside, stored>>

\* what a run logs of a bookmark it sends: the local node and the payload's parentId
Sent(map, b) ==
    [localId |-> b.id, parentLocal |-> b.parentId, depth |-> b.depth,
     parentId |-> Payload(map, b).parentId]

\* one uploadBookmarkBatch call of either run: the payloads are built from the
\* map as it is now, POST /batch, and the response's pairs enter the map; a
\* refused request falls back to one POST / per bookmark, refused as well
UploadBatch ==
    /\ run.pc = "upload" /\ run.queue # <<>>
    /\ LET batch == Head(run.queue)
           items == [i \in 1..Len(batch) |-> Sent(localToRemoteId, batch[i])]
       IN IF ExtAuthorized
          THEN /\ nextId + Len(batch) <= MaxExtIds
               /\ RouteBatch(ExtUser, [bookmarks |->
                                [i \in 1..Len(batch) |-> Payload(localToRemoteId, batch[i])]])
               /\ localToRemoteId' = SetMappings(localToRemoteId, reply'.body.bookmarks)
               /\ run' = [run EXCEPT
                            !.queue = Tail(@),
                            !.requests = Append(@, [route |-> "batch", ok |-> TRUE,
                                                    items |-> items,
                                                    results |-> reply'.body.bookmarks])]
          ELSE /\ Unauthorized
               /\ UNCHANGED localToRemoteId
               /\ run' = [run EXCEPT
                            !.queue = Tail(@),
                            !.requests = Append(@, [route |-> "batch", ok |-> FALSE,
                                                    items |-> items, results |-> <<>>])
                                         \o [i \in 1..Len(batch) |->
                                               [route |-> "single", ok |-> FALSE,
                                                items |-> <<items[i]>>, results |-> <<>>]]]
    /\ UNCHANGED <<edits, tree, idMapStorage, authToken, isSyncing, aside, stored>>

\* the end of either run: persistIdMappings, then isSyncing = false
SyncFinish ==
    /\ run.pc = "upload" /\ run.queue = <<>>
    /\ idMapStorage' = localToRemoteId
    /\ isSyncing' = FALSE
    /\ run' = [run EXCEPT !.pc = "done",
                          !.interrupted = IF run.kind = "full" THEN FALSE ELSE @]
    /\ UNCHANGED <<edits, tree, localToRemoteId, authToken, aside, stored, serverVars>>

\* the periodic-sync alarm: performIncrementalSync up to its first request;
\* with nothing unmapped it returns at once
IncrementalStart ==
    /\ run.started < MaxExtRuns
    /\ ~isSyncing /\ authToken # NULL
    /\ LET unsynced == Unsynced(LocalBookmarks(tree), localToRemoteId)
           r == [NoRun EXCEPT !.kind = "incremental",
                              !.localAtStart = DOMAIN tree,
                              !.mappedAtStart = DOMAIN localToRemoteId,
                              !.afterInterrupt = run.interrupted,
                              !.started = run.started + 1]
       IN IF unsynced = <<>>
          THEN /\ run' = [r EXCEPT !.pc = "done"]
               /\ isSyncing' = FALSE
          ELSE /\ run' = [r EXCEPT !.pc = "upload", !.queue = BatchesOf(unsynced)]
               /\ isSyncing' = TRUE
    /\ UNCHANGED <<edits, tree, localToRemoteId, idMapStorage, authToken, aside, stored, serverVars>>

\* the service worker is killed and woken: the module's variables start over
\* and ensureStateRestored reloads the id map from storage; a run in flight
\* is gone
WorkerRestart ==
    /\ isSyncing' = FALSE
    /\ localToRemoteId' = IF authToken # NULL THEN idMapStorage ELSE <<>>
    /\ run' = IF run.pc \in {"clear", "upload"}
              THEN [run EXCEPT !.pc = "killed", !.queue = <<>>,
                               !.interrupted = @ \/ (run.kind = "full" /\ run.cleared)]
              ELSE run
    /\ stateRestored' = TRUE
    /\ UNCHANGED settingsStorage
    /\ UNCHANGED <<edits, tree, idMapStorage, authToken, aside, serverVars>>

\* SETTINGS_UPDATED: stateRestored = false, then ensureStateRestored
SettingsUpdated ==
    /\ authToken # NULL
    /\ localToRemoteId' = idMapStorage
    /\ stateRestored' = TRUE
    /\ UNCHANGED settingsStorage
    /\ UNCHANGED <<edits, tree, idMapStorage, authToken, isSyncing, run, aside, serverVars>>

\* LOGOUT and handleLogout
Logout ==
    /\ authToken # NULL
    /\ authToken' = NULL
    /\ idMapStorage' = <<>>
    /\ localToRemoteId' = <<>>
    /\ stateRestored' = FALSE
    /\ settingsStorage' = NULL
    /\ UNCHANGED <<edits, tree, isSyncing, run, aside, serverVars>>

\* LOGIN and handleLoginWithToken
Login ==
    /\ authToken = NULL
    /\ authToken' = ExtUser
    /\ localToRemoteId' = idMapStorage
    /\ stateRestored' = TRUE
    /\ settingsStorage' = ExtUser
    /\ UNCHANGED <<edits, tree, idMapStorage, isSyncing, run, aside, serverVars>>

\* a listener returns at once when logged out or while a run holds isSyncing
ListenerOff == authToken = NULL \/ isSyncing

\* the user adds the link; onBookmarkCreated
LocalCreate(parentId, title) ==
    /\ edits < MaxLocalEdits /\ edits' = edits + 1
    /\ LinkId \notin DOMAIN tree
    /\ tree' = LinkTree(parentId, title)
    /\ IF ListenerOff
       THEN UNCHANGED <<localToRemoteId, idMapStorage, serverVars>>
       ELSE /\ nextId < MaxExtIds
            /\ RouteCreate(ExtUser,
                           Payload(localToRemoteId,
                                   [id |-> LinkId] @@ LinkNode(parentId, title)))
            /\ localToRemoteId' =
                 [l \in DOMAIN localToRemoteId \cup {LinkId} |->
                    IF l = LinkId THEN reply'.body.bookmark.id ELSE localToRemoteId[l]]
            /\ idMapStorage' = localToRemoteId'
    /\ UNCHANGED <<authToken, isSyncing, run, aside, stored>>

\* the user renames the link; onBookmarkChanged sends {title, url} and no
\* expectedVersion
LocalChange(title) ==
    /\ edits < MaxLocalEdits /\ edits' = edits + 1
    /\ LinkId \in DOMAIN tree /\ title # tree[LinkId].title
    /\ tree' = [tree EXCEPT ![LinkId].title = title]
    /\ IF ListenerOff \/ LinkId \notin DOMAIN localToRemoteId
       THEN UNCHANGED serverVars
       ELSE RouteUpdate(ExtUser, localToRemoteId[LinkId],
                        [title |-> title, url |-> tree[LinkId].url], 0)
    /\ UNCHANGED <<localToRemoteId, idMapStorage, authToken, isSyncing, run, aside, stored>>

\* the user deletes the link; onBookmarkRemoved sends DELETE without
\* expectedVersion, then drops and persists the mapping
LocalRemove ==
    /\ edits < MaxLocalEdits /\ edits' = edits + 1
    /\ LinkId \in DOMAIN tree
    /\ tree' = FolderTree
    /\ IF ListenerOff \/ LinkId \notin DOMAIN localToRemoteId
       THEN UNCHANGED <<localToRemoteId, idMapStorage, serverVars>>
       ELSE /\ RouteDelete(ExtUser, localToRemoteId[LinkId], 0)
            /\ localToRemoteId' = Without(localToRemoteId, LinkId)
            /\ idMapStorage' = localToRemoteId'
    /\ UNCHANGED <<authToken, isSyncing, run, aside, stored>>

\* the user moves the link to the other parent; onBookmarkMoved
LocalMove(parentId) ==
    /\ edits < MaxLocalEdits /\ edits' = edits + 1
    /\ LinkId \in DOMAIN tree /\ parentId # tree[LinkId].parentId
    /\ tree' = [tree EXCEPT ![LinkId] = LinkNode(parentId, @.title)]
    /\ IF ListenerOff \/ LinkId \notin DOMAIN localToRemoteId
       THEN UNCHANGED serverVars
       ELSE RouteMove(ExtUser, localToRemoteId[LinkId],
                      RemoteParent(localToRemoteId, parentId), tree'[LinkId].index)
    /\ UNCHANGED <<localToRemoteId, idMapStorage, authToken, isSyncing, run, aside, stored>>

\* the extension has just logged in to an account without bookmarks
InitExt ==
    /\ db = [bookmarks |-> <<>>, sync_events |-> <<>>,
             sync_versions |-> [u \in Users |-> 0]]
    /\ nextId = 0
    /\ sockets = [w \in Conns |->
                    [readyState |-> "NEW", userId |-> NoUser, clientId |-> NoClient,
                     closeCode |-> 0, isAlive |-> FALSE]]
    /\ userConnections = <<>>
    /\ result = NoResult
    /\ sent = <<>>
    /\ reply = NoReply
    /\ successes = [i \in ExtBookmarkIds |-> 0]
    /\ mutations = [u \in Users |-> 0]
    /\ wiped = [u \in Users |-> 0]
    /\ applied = 0
    /\ pager = NoPager
    /\ probe = [w \in Conns |-> "idle"]
    /\ inflight = <<>>
    /\ delivered = <<>>
    /\ tree = LinkTree("5", "a")
    /\ localToRemoteId = <<>>
    /\ idMapStorage = <<>>
    /\ authToken = ExtUser
    /\ isSyncing = FALSE
    /\ run = NoRun
    /\ edits = 0
    /\ stateRestored = TRUE
    /\ settingsStorage = ExtUser
    /\ tasks = NoTasks

NextExt ==
    \/ FullSyncStart
    \/ FullSyncClear
    \/ UploadBatch
    \/ SyncFinish
    \/ IncrementalStart
    \/ WorkerRestart
    \/ SettingsUpdated
    \/ Logout
    \/ Login
    \/ \E p \in LinkParents, t \in LinkTitles : LocalCreate(p, t)
    \/ \E t \in LinkTitles : LocalChange(t)
    \/ LocalRemove
    \/ \E p \in LinkParents : LocalMove(p)

SpecExt == InitExt /\ [][NextExt]_vars

(* ------------- sync triggers during a run, failing runs --------------- *)

\* ensureStateRestored, which every message and alarm handler awaits first,
\* as the module state it leaves when nothing runs between its awaits
Restores == ~(stateRestored /\ authToken # NULL) /\ settingsStorage # NULL
RestoredToken == IF Restores THEN settingsStorage ELSE authToken
RestoredMap == IF Restores THEN idMapStorage ELSE localToRemoteId

\* SYNC_NOW or the periodic-sync alarm while a run holds isSyncing:
\* ensureStateRestored, then performFullSync or performIncrementalSync
\* returns at its first test
SyncRefused ==
    /\ isSyncing
    /\ authToken' = RestoredToken
    /\ localToRemoteId' = RestoredMap
    /\ stateRestored' = TRUE
    /\ tasks' = [tasks EXCEPT !.refused = TRUE]
    /\ UNCHANGED <<edits, tree, idMapStorage, isSyncing, run, settingsStorage,
                   probe, inflight, delivered, serverVars>>

\* a run fails: the fetch of POST /clear rejects (the server is not
\* reachable), or persistIdMappings rejects; catch logs, finally sets
\* isSyncing = false
SyncFail ==
    /\ \/ run.kind = "full" /\ run.pc = "clear"
       \/ run.pc = "upload" /\ run.queue = <<>>
    /\ isSyncing' = FALSE
    /\ run' = [run EXCEPT !.pc = "failed"]
    /\ UNCHANGED <<edits, tree, localToRemoteId, idMapStorage, authToken, aside, stored, serverVars>>

NextSync ==
    \/ FullSyncStart
    \/ FullSyncClear
    \/ UploadBatch
    \/ SyncFinish
    \/ IncrementalStart
    \/ SyncRefused
    \/ SyncFail
    \/ WorkerRestart
    \/ SettingsUpdated
    \/ Logout
    \/ Login
    \/ \E p \in LinkParents, t \in LinkTitles : LocalCreate(p, t)
    \/ \E t \in LinkTitles : LocalChange(t)
    \/ LocalRemove
    \/ \E p \in LinkParents : LocalMove(p)

SpecSync == InitExt /\ [][NextSync]_vars

(* ------------- a bookmark-created listener in flight ------------------ *)

\* the user adds the link; onBookmarkCreated runs up to await getApiUrl():
\* ensureStateRestored, then the test of authToken and isSyncing
CreatedStart(parentId, title) ==
    /\ edits < MaxLocalEdits /\ edits' = edits + 1
    /\ LinkId \notin DOMAIN tree
    /\ tasks.created = "idle"
    /\ tree' = LinkTree(parentId, title)
    /\ authToken' = RestoredToken
    /\ localToRemoteId' = RestoredMap
    /\ stateRestored' = TRUE
    /\ tasks' = IF RestoredToken = NULL \/ isSyncing THEN tasks
                ELSE [tasks EXCEPT !.created = "url"]
    /\ UNCHANGED <<idMapStorage, isSyncing, run, settingsStorage,
                   probe, inflight, delivered, serverVars>>

\* onBookmarkCreated after getApiUrl: the parent's remote id is looked up in
\* the map as it is now and POST /api/bookmarks is sent and answered
CreatedPost ==
    /\ tasks.created = "url"
    /\ IF ExtAuthorized
       THEN /\ nextId < MaxExtIds
            /\ RouteCreate(ExtUser, Payload(localToRemoteId, [id |-> LinkId] @@ tree[LinkId]))
            /\ tasks' = [tasks EXCEPT !.created = "sent",
                                      !.remote = reply'.body.bookmark.id]
       ELSE /\ Unauthorized
            /\ tasks' = [tasks EXCEPT !.created = "sent", !.remote = NULL]
    /\ UNCHANGED <<edits, tree, localToRemoteId, idMapStorage, authToken, isSyncing, run,
                   stored, probe, inflight, delivered>>

\* onBookmarkCreated after the response: the pair enters the map and
\* persistIdMappings stores the map
CreatedMap ==
    /\ tasks.created = "sent"
    /\ localToRemoteId' =
         IF tasks.remote = NULL THEN localToRemoteId
         ELSE [l \in DOMAIN localToRemoteId \cup {LinkId} |->
                 IF l = LinkId THEN tasks.remote ELSE localToRemoteId[l]]
    /\ idMapStorage' = IF tasks.remote = NULL THEN idMapStorage ELSE localToRemoteId'
    /\ tasks' = [tasks EXCEPT !.created = "idle", !.remote = NULL]
    /\ UNCHANGED <<edits, tree, authToken, isSyncing, run, stored,
                   probe, inflight, delivered, serverVars>>

\* the extension is logged in to an account without bookmarks and the user
\* has not added the link yet
InitListener ==
    /\ db = [bookmarks |-> <<>>, sync_events |-> <<>>,
             sync_versions |-> [u \in Users |-> 0]]
    /\ nextId = 0
    /\ sockets = [w \in Conns |->
                    [readyState |-> "NEW", userId |-> NoUser, clientId |-> NoClient,
                     closeCode |-> 0, isAlive |-> FALSE]]
    /\ userConnections = <<>>
    /\ result = NoResult
    /\ sent = <<>>
    /\ reply = NoReply
    /\ successes = [i \in ExtBookmarkIds |-> 0]
    /\ mutations = [u \in Users |-> 0]
    /\ wiped = [u \in Users |-> 0]
    /\ applied = 0
    /\ pager = NoPager
    /\ probe = [w \in Conns |-> "idle"]
    /\ inflight = <<>>
    /\ delivered = <<>>
    /\ tree = FolderTree
    /\ localToRemoteId = <<>>
    /\ idMapStorage = <<>>
    /\ authToken = ExtUser
    /\ isSyncing = FALSE
    /\ run = NoRun
    /\ edits = 0
    /\ stateRestored = TRUE
    /\ settingsStorage = ExtUser
    /\ tasks = NoTasks

NextListener ==
    \/ \E p \in LinkParents, t \in LinkTitles : CreatedStart(p, t)
    \/ CreatedPost
    \/ CreatedMap
    \/ FullSyncStart
    \/ FullSyncClear
    \/ UploadBatch
    \/ SyncFinish
    \/ IncrementalStart

SpecListener == InitListener /\ [][NextListener]_vars

(* ------------------ logout and restore, await by await ---------------- *)

\* LOGOUT after its ensureStateRestored: handleLogout up to the first await
\* of saveSettings; isAuthenticated is set wherever authToken is and is
\* authToken # NULL throughout
LogoutStart ==
    /\ stateRestored /\ authToken # NULL
    /\ tasks.logout \in {"idle", "done"}
    /\ authToken' = NULL
    /\ stateRestored' = FALSE
    /\ tasks' = [tasks EXCEPT !.logout = "settings"]
    /\ UNCHANGED <<edits, tree, localToRemoteId, idMapStorage, isSyncing, run,
                   settingsStorage, probe, inflight, delivered, serverVars>>

\* saveSettings({authToken: undefined}): the stored settings lose the token
LogoutSettings ==
    /\ tasks.logout = "settings"
    /\ settingsStorage' = NULL
    /\ tasks' = [tasks EXCEPT !.logout = "map"]
    /\ UNCHANGED <<edits, tree, localToRemoteId, idMapStorage, authToken, isSyncing, run,
                   stateRestored, probe, inflight, delivered, serverVars>>

\* saveIdMap({})
LogoutIdMap ==
    /\ tasks.logout = "map"
    /\ idMapStorage' = <<>>
    /\ tasks' = [tasks EXCEPT !.logout = "clear"]
    /\ UNCHANGED <<edits, tree, localToRemoteId, authToken, isSyncing, run,
                   stored, probe, inflight, delivered, serverVars>>

\* the end of handleLogout: localToRemoteId.clear()
LogoutEnd ==
    /\ tasks.logout = "clear"
    /\ localToRemoteId' = <<>>
    /\ tasks' = [tasks EXCEPT !.logout = "done"]
    /\ UNCHANGED <<edits, tree, idMapStorage, authToken, isSyncing, run,
                   stored, probe, inflight, delivered, serverVars>>

\* an alarm, a message or a bookmark listener calls ensureStateRestored,
\* which does not return at its first test and awaits getSettings
RestoreStart ==
    /\ tasks.restore = "idle"
    /\ ~(stateRestored /\ authToken # NULL)
    /\ tasks' = [tasks EXCEPT !.restore = "settings"]
    /\ UNCHANGED <<edits, tree, localToRemoteId, idMapStorage, authToken, isSyncing, run,
                   stored, probe, inflight, delivered, serverVars>>

\* ensureStateRestored after getSettings: with a stored token, authToken and
\* isAuthenticated are set and getIdMap is awaited; without one,
\* stateRestored = true
RestoreSettings ==
    /\ tasks.restore = "settings"
    /\ IF settingsStorage # NULL
       THEN /\ authToken' = settingsStorage
            /\ tasks' = [tasks EXCEPT !.restore = "map"]
            /\ UNCHANGED stateRestored
       ELSE /\ stateRestored' = TRUE
            /\ tasks' = [tasks EXCEPT !.restore = "idle"]
            /\ UNCHANGED authToken
    /\ UNCHANGED <<edits, tree, localToRemoteId, idMapStorage, isSyncing, run,
                   settingsStorage, probe, inflight, delivered, serverVars>>

\* ensureStateRestored after getIdMap: the maps are rebuilt, stateRestored = true
RestoreIdMap ==
    /\ tasks.restore = "map"
    /\ localToRemoteId' = idMapStorage
    /\ stateRestored' = TRUE
    /\ tasks' = [tasks EXCEPT !.restore = "idle"]
    /\ UNCHANGED <<edits, tree, idMapStorage, authToken, isSyncing, run,
                   settingsStorage, probe, inflight, delivered, serverVars>>

\* the periodic-sync alarm whose ensureStateRestored returned at its first
\* test (or has just finished): performIncrementalSync
AlarmSync ==
    /\ stateRestored /\ tasks.restore = "idle"
    /\ IncrementalStart

\* LOGIN after a logout that has completed: handleLoginWithToken
LoginAgain ==
    /\ authToken = NULL
    /\ tasks.logout = "done" /\ tasks.restore = "idle"
    /\ settingsStorage' = ExtUser
    /\ authToken' = ExtUser
    /\ stateRestored' = TRUE
    /\ localToRemoteId' = idMapStorage
    /\ tasks' = [tasks EXCEPT !.logout = "idle"]
    /\ UNCHANGED <<edits, tree, idMapStorage, isSyncing, run,
                   probe, inflight, delivered, serverVars>>

NextLogout ==
    \/ LogoutStart
    \/ LogoutSettings
    \/ LogoutIdMap
    \/ LogoutEnd
    \/ RestoreStart
    \/ RestoreSettings
    \/ RestoreIdMap
    \/ AlarmSync
    \/ UploadBatch
    \/ SyncFinish
    \/ LoginAgain

SpecLogout == InitExt /\ [][NextLogout]_vars

(* --------------------- rows: list, search, tree ----------------------- *)

\* LIMIT 100 of searchBookmarks
SearchLimit == 100

\* title LIKE '%q%': the titles, urls and queries here are single characters,
\* for which the pattern matches exactly the equal text; NULL LIKE ... is NULL
Like(text, q) == text # NULL /\ text = q

searchBookmarks_WithDeleted(d, userId, query) ==
    { toBookmark(d.bookmarks[i]) :
        i \in {j \in DOMAIN d.bookmarks :
                  /\ d.bookmarks[j].user_id = userId
                  /\ \/ Like(d.bookmarks[j].title, query)
                     \/ Like(d.bookmarks[j].url, query)} }

\* searchBookmarks: the user's rows with is_deleted = 0 whose title or url
\* matches (as a set; ORDER BY date_modified only arranges it, and LIMIT cuts
\* nothing while the user has at most SearchLimit rows)
searchBookmarks(d, userId, query) ==
    LET rows == { d.bookmarks[i] :
                    i \in {j \in DOMAIN d.bookmarks :
                              /\ d.bookmarks[j].user_id = userId
                              /\ d.bookmarks[j].is_deleted = 0
                              /\ \/ Like(d.bookmarks[j].title, query)
                                 \/ Like(d.bookmarks[j].url, query)} }
        kept == IF Cardinality(rows) <= SearchLimit THEN rows
                ELSE CHOOSE T \in SUBSET rows : Cardinality(T) = SearchLimit
    IN { toBookmark(r) : r \in kept }

\* router.get('/')
RouteList(u) ==
    /\ reply' = [status |-> 200,
                 body |-> [bookmarks |-> getAllBookmarks(db, u),
                           syncVersion |-> getSyncVersion(db, u)]]
    /\ result' = NoResult
    /\ sent' = <<>>
    /\ UNCHANGED <<db, nextId, sockets, userConnections, successes, mutations, wiped,
                   applied, pager>>

\* router.get('/search'): an empty or missing q is answered 400
RouteSearch(u, query) ==
    /\ reply' = IF query = ""
                THEN [status |-> 400, body |-> [error |-> "Search query required"]]
                ELSE LET results == searchBookmarks(db, u, query)
                     IN [status |-> 200,
                         body |-> [results |-> results, total |-> Cardinality(results)]]
    /\ result' = NoResult
    /\ sent' = <<>>
    /\ UNCHANGED <<db, nextId, sockets, userConnections, successes, mutations, wiped,
                   applied, pager>>

\* buildBookmarkTree, second pass: a bookmark is a root node when its parentId
\* is null or names no folder of the list (an orphan); otherwise it is pushed
\* to the children of the folder its parentId names
TreeRoots(bs) ==
    { b \in bs : \/ b.parentId = NULL
                 \/ ~\E p \in bs : p.id = b.parentId /\ p.isFolder }

TreeChildren(bs, nodes) ==
    { b \in bs : b.parentId # NULL /\ \E p \in nodes : p.id = b.parentId /\ p.isFolder }

\* the nodes of the tree buildBookmarkTree returns: the root nodes and what
\* hangs below them
RECURSIVE TreeNodes(_, _)
TreeNodes(bs, nodes) ==
    LET more == nodes \cup TreeChildren(bs, nodes)
    IN IF more = nodes THEN nodes ELSE TreeNodes(bs, more)

buildBookmarkTree(bs) == TreeNodes(bs, TreeRoots(bs))

\* the q of a search: a title, a url, a text no row holds, and the empty one
Queries == {"a", "u", "z", ""}

\* bodies of a create: a link and a folder
RowInputs == { LinkData, FolderData }

\* the parent a move or a create may name: none, or any id handed out
RowParents == {NULL} \cup BookmarkIds

NextRows ==
    \/ \E u \in Users : RestClear(u) /\ Outside
    \/ \E u \in Users, data \in RowInputs : RestCreate(u, data) /\ Outside
    \/ \E u \in Users, id \in BookmarkIds, data \in Patches, ev \in ExpectedVersions :
          RestUpdate(u, id, data, ev) /\ Outside
    \/ \E u \in Users, id \in BookmarkIds, p \in RowParents, so \in SortOrders :
          RestMove(u, id, p, so) /\ Outside
    \/ \E u \in Users, id \in BookmarkIds, ev \in ExpectedVersions :
          RestDelete(u, id, ev) /\ Outside
    \/ \E u \in Users : RouteList(u) /\ Outside
    \/ \E u \in Users, q \in Queries : RouteSearch(u, q) /\ Outside
    \/ \E w \in Conns : WsConnection(w) /\ Outside
    \/ \E w \in Conns, t \in Tokens, c \in ClientIds : WsAuth(w, t, c) /\ Outside
    \/ \E w \in Conns : WsSyncClear(w) /\ Outside
    \/ \E w \in Conns, data \in RowInputs : WsBookmarkCreate(w, data) /\ Outside
    \/ \E w \in Conns, id \in BookmarkIds, data \in Patches, ev \in ExpectedVersions :
          WsBookmarkUpdate(w, id, data, ev) /\ Outside
    \/ \E w \in Conns, id \in BookmarkIds, ev \in ExpectedVersions :
          WsBookmarkDelete(w, id, ev) /\ Outside
    \/ \E w \in Conns, id \in BookmarkIds, p \in RowParents,
          so \in SortOrders, ev \in ExpectedVersions :
          WsBookmarkMove(w, id, p, so, ev) /\ Outside

SpecRows == Init /\ [][NextRows]_vars

(* ------------------- two requests in flight at once ------------------- *)

\* request slots: at most two requests are in flight
Requests == {"r1", "r2"}

\* the mutations a request may ask for, over REST as the extension's user or
\* as a frame on socket w1
RaceOps == {"update", "move", "delete"}
RaceVias == {"rest"} \cup Conns
RaceVersions == 1..2

\* the slots whose request has arrived and whose handler has not yet run
Pending == { r \in DOMAIN inflight : inflight[r].state = "pending" }

\* the server receives a request: express has the request and is still
\* reading its body, or the frame is in the socket's receive buffer; the
\* handler has not started
Arrive(r, op, via, id, expectedVersion) ==
    /\ r \notin DOMAIN inflight
    /\ via \in Conns => Open(via)
    /\ inflight' = inflight @@
           (r :> [op |-> op, via |-> via, id |-> id,
                  \* router.put('/:id/move') passes the literal 0
                  expectedVersion |-> IF via = "rest" /\ op = "move"
                                      THEN 0 ELSE expectedVersion,
                  state |-> "pending", outcome |-> "none", with |-> Pending])
    /\ UNCHANGED <<serverVars, probe, delivered, extVars>>

\* the handler of a received request runs: the route handler of
\* routes/bookmarks.ts, or ws.on('message') through handleMessage to
\* handleBookmarkUpdate/Move/Delete; neither awaits between reading the row
\* and writing it
Serve(r) ==
    /\ r \in Pending
    /\ LET q == inflight[r] IN
       /\ IF q.via = "rest"
          THEN CASE q.op = "update" -> RouteUpdate(ExtUser, q.id, TitlePatch, q.expectedVersion)
                 [] q.op = "move" -> RouteMove(ExtUser, q.id, NULL, 1)
                 [] q.op = "delete" -> RouteDelete(ExtUser, q.id, q.expectedVersion)
          ELSE CASE q.op = "update" -> WsBookmarkUpdate(q.via, q.id, TitlePatch, q.expectedVersion)
                 [] q.op = "move" -> WsBookmarkMove(q.via, q.id, NULL, 1, q.expectedVersion)
                 [] q.op = "delete" -> WsBookmarkDelete(q.via, q.id, q.expectedVersion)
       /\ inflight' = [inflight EXCEPT ![r].state = "done", ![r].outcome = result'.kind]
    /\ UNCHANGED <<probe, delivered, extVars>>

NextRace ==
    \/ \E data \in CreateInputs : nextId = 0 /\ RestCreate(ExtUser, data) /\ Outside
    \/ \E w \in Conns : WsConnection(w) /\ Outside
    \/ \E w \in Conns, c \in ClientIds : WsAuth(w, ExtUser, c) /\ Outside
    \/ \E r \in Requests, op \in RaceOps, via \in RaceVias, id \in BookmarkIds,
          v \in RaceVersions : Arrive(r, op, via, id, v)
    \/ \E r \in Requests : Serve(r)

SpecRace == Init /\ [][NextRace]_vars

(* ---------------- what the sockets of a user are written -------------- *)

\* the acks and broadcasts written for user u since the user's last clear
Got(u) == IF u \in DOMAIN delivered THEN delivered[u] ELSE <<>>

\* the acks and broadcasts among the frames a handler wrote, as
\* receiver, kind and syncVersion
Versioned(out) ==
    LET fs == SelectSeq(out, LAMBDA f : f.msg.type \in {"bookmark_ack", "sync_incremental"})
    IN [i \in 1..Len(fs) |->
          IF fs[i].msg.type = "bookmark_ack"
          THEN [to |-> fs[i].to, kind |-> "ack", syncVersion |-> fs[i].msg.syncVersion]
          ELSE [to |-> fs[i].to, kind |-> "broadcast",
                syncVersion |-> fs[i].msg.events[1].syncVersion]]

\* the frames the mutation handler of socket w has just written are on
\* their way to the sockets, in the order of the ws.send calls
Log(w) ==
    delivered' = IF Versioned(sent') = <<>> THEN delivered
                 ELSE LET u == sockets[w].userId IN
                      [x \in DOMAIN delivered \cup {u} |->
                          IF x = u THEN Got(u) \o Versioned(sent') ELSE delivered[x]]

\* clearAllBookmarks(u) starts the user's ledger again
Forget(u) == delivered' = [x \in DOMAIN delivered \ {u} |-> delivered[x]]

Unlogged == UNCHANGED <<probe, inflight, extVars>>

NextOrder ==
    \/ \E w \in FanoutConns : WsConnection(w) /\ Outside
    \/ \E w \in FanoutConns, u \in Users, c \in FanoutClientIds : WsAuth(w, u, c) /\ Outside
    \/ \E w \in FanoutConns, data \in CreateInputs :
          WsBookmarkCreate(w, data) /\ Log(w) /\ Unlogged
    \/ \E w \in FanoutConns, id \in BookmarkIds, data \in Patches, ev \in ExpectedVersions :
          WsBookmarkUpdate(w, id, data, ev) /\ Log(w) /\ Unlogged
    \/ \E w \in FanoutConns, id \in BookmarkIds, ev \in ExpectedVersions :
          WsBookmarkDelete(w, id, ev) /\ Log(w) /\ Unlogged
    \/ \E w \in FanoutConns, id \in BookmarkIds, p \in MoveParents,
          so \in SortOrders, ev \in ExpectedVersions :
          WsBookmarkMove(w, id, p, so, ev) /\ Log(w) /\ Unlogged
    \/ \E w \in FanoutConns :
          WsSyncClear(w) /\ Forget(sockets[w].userId) /\ Unlogged
    \/ RestClear(ExtUser) /\ Forget(ExtUser) /\ Unlogged
    \/ \E data \in CreateInputs : RestCreate(ExtUser, data) /\ Outside

SpecOrder == InitFanout /\ [][NextOrder]_vars

(* ------------------------------ properties ---------------------------- *)

\* the syncVersions stamped on user u's events
UserVersions(u) == { db.sync_events[i].sync_version :
                        i \in {j \in 1..Len(db.sync_events) : db.sync_events[j].user_id = u} }

Max(S) == CHOOSE x \in S : \A y \in S : y <= x

\* the user a socket is authenticated as
UserOf(w) == sockets[w].userId

\* C1: every stored bookmark row's syncVersion is 1 plus the number of
\* successful update, move and delete requests made on it since its creation.
C1_VersionCountsSuccesses ==
    \A id \in DOMAIN db.bookmarks :
        db.bookmarks[id].sync_version = 1 + successes[id]

\* C2: for every user the ledger equals the number of successful mutations
\* since the user was created or last cleared, and equals the largest
\* syncVersion on the user's events when the user has any.
C2_LedgerCountsMutations ==
    \A u \in Users :
        /\ u \in DOMAIN db.sync_versions
        /\ db.sync_versions[u] = mutations[u]
        /\ UserVersions(u) # {} => db.sync_versions[u] = Max(UserVersions(u))

\* a user with at least two mutations after a clear, some made over REST and
\* some over a socket
C2_Witness ==
    \E u \in Users :
        /\ mutations[u] >= 2
        /\ \E i, j \in 1..Len(db.sync_events) :
              /\ db.sync_events[i].user_id = u /\ db.sync_events[i].client_id = ApiClient
              /\ db.sync_events[j].user_id = u /\ db.sync_events[j].client_id \in ClientIds

\* the call names a row of user u whose stored syncVersion differs from ev
Stale(u, id, ev) == HasBookmark(db, id, u) /\ db.bookmarks[id].sync_version # ev

\* the store call returned a conflict carrying the row as it was and is, and
\* no table changed
ConflictOutcome(id) ==
    /\ result'.kind = "conflict"
    /\ result'.serverVersion = toBookmark(db.bookmarks[id])
    /\ db' = db

\* the socket was written exactly one frame, a conflict carrying that row
ConflictFrame(w, id) ==
    /\ Len(sent') = 1
    /\ sent'[1].to = w
    /\ sent'[1].msg.type = "conflict"
    /\ sent'[1].msg.id = id
    /\ sent'[1].msg.serverVersion = toBookmark(db.bookmarks[id])

\* C3: an update, move or delete whose expectedVersion differs from the row's
\* stored syncVersion returns a conflict carrying the current row and leaves
\* the row, the ledger and the event log as they were; on a socket the
\* conflict is the one frame written.
C3_ConflictLeavesStateAlone ==
    [][ /\ \A u \in Users, id \in BookmarkIds, data \in Patches, ev \in ExpectedVersions :
              Stale(u, id, ev) /\ RestUpdate(u, id, data, ev) => ConflictOutcome(id)
        /\ \A u \in Users, id \in BookmarkIds, p \in MoveParents, so \in SortOrders :
              Stale(u, id, 0) /\ RestMove(u, id, p, so) => ConflictOutcome(id)
        /\ \A u \in Users, id \in BookmarkIds, ev \in ExpectedVersions :
              Stale(u, id, ev) /\ RestDelete(u, id, ev) => ConflictOutcome(id)
        /\ \A w \in Conns, id \in BookmarkIds, data \in Patches, ev \in ExpectedVersions :
              Authed(w) /\ Stale(UserOf(w), id, ev) /\ WsBookmarkUpdate(w, id, data, ev)
                  => ConflictOutcome(id) /\ ConflictFrame(w, id)
        /\ \A w \in Conns, id \in BookmarkIds, p \in MoveParents, so \in SortOrders,
              ev \in ExpectedVersions :
              Authed(w) /\ Stale(UserOf(w), id, ev) /\ WsBookmarkMove(w, id, p, so, ev)
                  => ConflictOutcome(id) /\ ConflictFrame(w, id)
        /\ \A w \in Conns, id \in BookmarkIds, ev \in ExpectedVersions :
              Authed(w) /\ Stale(UserOf(w), id, ev) /\ WsBookmarkDelete(w, id, ev)
                  => ConflictOutcome(id) /\ ConflictFrame(w, id)
      ]_vars

\* a stale write over a socket to a row that has been updated once: the
\* conflict carries the version-2 row, which is still what the table holds
C3_Witness ==
    /\ result.kind = "conflict"
    /\ result.serverVersion.syncVersion = 2
    /\ Len(sent) = 1
    /\ sent[1].msg.type = "conflict"
    /\ sent[1].msg.serverVersion = toBookmark(db.bookmarks[sent[1].msg.id])

\* the id names no row of user u, or a row that is already soft-deleted
Gone(u, id) == ~HasBookmark(db, id, u) \/ db.bookmarks[id].is_deleted = 1

LedgerAndLogUnchanged ==
    db'.sync_versions = db.sync_versions /\ db'.sync_events = db.sync_events

\* C4: deleting an id that is soft-deleted or never existed for the user
\* answers success (HTTP 200 {success: true}; bookmark_ack on a socket) for
\* any expectedVersion and leaves the ledger and the event log unchanged.
C4_DeleteOfAbsentIsNoOp ==
    [][ /\ \A u \in Users, id \in BookmarkIds, ev \in ExpectedVersions :
              Gone(u, id) /\ RestDelete(u, id, ev)
                  => /\ reply'.status = 200
                     /\ reply'.body.success
                     /\ LedgerAndLogUnchanged
        /\ \A w \in Conns, id \in BookmarkIds, ev \in ExpectedVersions :
              Authed(w) /\ Gone(UserOf(w), id) /\ WsBookmarkDelete(w, id, ev)
                  => /\ Len(sent') >= 1
                     /\ sent'[1].msg.type = "bookmark_ack"
                     /\ LedgerAndLogUnchanged
      ]_vars

\* the live bookmarks of user u as the API hands them out
LiveBookmarks(u) ==
    { toBookmark(db.bookmarks[i]) :
        i \in {j \in DOMAIN db.bookmarks :
                  db.bookmarks[j].user_id = u /\ db.bookmarks[j].is_deleted = 0} }

C6_UpToDateIsEmptyIncremental ==
    [][ \A w \in Conns, v \in CursorValues :
            WsSyncRequest(w, v) /\ Authed(w) /\ v # 0 /\ v = db.sync_versions[UserOf(w)]
                => /\ Len(sent') = 1
                   /\ sent'[1].msg.type = "sync_incremental"
                   /\ sent'[1].msg.events = <<>>
                   /\ sent'[1].msg.currentVersion = v
      ]_vars

\* C7: a sync_incremental answer to a sync_request carries every event of the
\* user with syncVersion in (lastSyncVersion, currentVersion], currentVersion
\* being the value in the same frame.
C7_IncrementalIsComplete ==
    [][ \A w \in Conns, v \in PagingCursors :
            /\ WsSyncRequest(w, v) /\ Authed(w)
            /\ sent'[1].msg.type = "sync_incremental"
            => { sent'[1].msg.events[i].syncVersion : i \in 1..Len(sent'[1].msg.events) }
                 = { x \in UserVersions(UserOf(w)) :
                        x > v /\ x <= sent'[1].msg.currentVersion }
      ]_vars

Min2(a, b) == IF a <= b THEN a ELSE b

\* C8: for every user and cursor v, getSyncEventsSince returns rows of that
\* user only, stamped v+1, v+2, ... in that order, and as many of them as the
\* ledger is ahead of v (up to the page limit).
C8_SinceIsGapless ==
    \A u \in Users, v \in CursorValues :
        LET r == getSyncEventsSince(db, u, v) IN
        /\ \A i \in 1..Len(r) :
              /\ r[i].syncVersion = v + i
              /\ \E j \in 1..Len(db.sync_events) :
                    /\ db.sync_events[j].user_id = u
                    /\ toSyncEvent(db.sync_events[j]) = r[i]
        /\ Len(r) = IF db.sync_versions[u] > v
                    THEN Min2(db.sync_versions[u] - v, EventPageLimit) ELSE 0

\* a non-empty answer for a cursor above 0 while another user has events too
C8_Witness ==
    \E u \in Users, v \in CursorValues :
        /\ v >= 1
        /\ Len(getSyncEventsSince(db, u, v)) >= 1
        /\ \E o \in Users \ {u} : UserVersions(o) # {}

\* the versions of user u's events above cursor c
Above(u, c) == { x \in UserVersions(u) : x > c }

\* C9: a call returns at most EventPageLimit events, in increasing version
\* order, and they are the lowest-versioned ones above the cursor; a caller
\* re-requesting from the last returned syncVersion collects the events above
\* its first cursor in order without repetition, stops exactly on an empty or
\* short page, has then collected every one of them, and makes no more calls
\* than full pages plus one.
C9_PagingCollectsAll ==
    LET r == getSyncEventsSince(db, pager.user, pager.cursor)
        page == { r[i].syncVersion : i \in 1..Len(r) }
        rest == Above(pager.user, pager.cursor)
        all == Above(pager.user, pager.start)
        collected == { pager.got[i] : i \in 1..Len(pager.got) }
    IN /\ Len(r) <= EventPageLimit
       /\ \A i \in 2..Len(r) : r[i - 1].syncVersion < r[i].syncVersion
       /\ page \subseteq rest
       /\ rest \ page # {} =>
             /\ Len(r) = EventPageLimit
             /\ \A x \in rest \ page : x > r[Len(r)].syncVersion
       /\ \A i \in 1..Len(pager.got) :
             /\ pager.got[i] > pager.start
             /\ i > 1 => pager.got[i - 1] < pager.got[i]
       /\ collected \subseteq all
       /\ pager.done <=> (pager.fetches > 0 /\ pager.lastLen < EventPageLimit)
       /\ pager.done => collected = all
       /\ pager.fetches <= (Cardinality(all) \div EventPageLimit) + 1

\* a caller that needed two full pages and a third call to finish
C9_Witness ==
    /\ pager.done
    /\ pager.fetches = 3
    /\ Len(pager.got) >= 2 * EventPageLimit

\* C10: a sync_request with a cursor the ledger held before a clear wiped the
\* log is answered with sync_full.
C10_StaleCursorGetsFull ==
    [][ \A w \in Conns, v \in CursorValues :
            WsSyncRequest(w, v) /\ Authed(w) /\ v >= 1 /\ v <= wiped[UserOf(w)]
                => /\ Len(sent') = 1
                   /\ sent'[1].msg.type = "sync_full"
      ]_vars

\* frames written to socket o by the last handler that are sync_incremental
\* broadcasts of the event stamped v
BroadcastsTo(out, o, v) ==
    { i \in 1..Len(out) :
        /\ out[i].to = o
        /\ out[i].msg.type = "sync_incremental"
        /\ Len(out[i].msg.events) = 1
        /\ out[i].msg.events[1].syncVersion = v }

\* after a successful mutation on socket w: every other open socket of the
\* same user was written exactly one broadcast of the event, w none and one ack
FannedOut(w) ==
    Succeeded(result') =>
        /\ \A o \in FanoutConns \ {w} :
              sockets[o].readyState = "OPEN" /\ sockets[o].userId = UserOf(w)
                  => Cardinality(BroadcastsTo(sent', o, result'.syncVersion)) = 1
        /\ BroadcastsTo(sent', w, result'.syncVersion) = {}
        /\ Cardinality({ i \in 1..Len(sent') :
                            sent'[i].to = w /\ sent'[i].msg.type = "bookmark_ack" }) = 1

\* C11: for every successful create/update/delete/move on socket A, every
\* other open socket authenticated as the same user is written exactly one
\* sync_incremental broadcast of the event, and A is written its
\* bookmark_ack and no broadcast, whatever clientIds the sockets gave at auth.
C11_OthersGetOneBroadcast ==
    [][ \A w \in FanoutConns :
          /\ \A data \in CreateInputs :
                Authed(w) /\ WsBookmarkCreate(w, data) => FannedOut(w)
          /\ \A id \in BookmarkIds, data \in Patches, ev \in ExpectedVersions :
                Authed(w) /\ WsBookmarkUpdate(w, id, data, ev) => FannedOut(w)
          /\ \A id \in BookmarkIds, ev \in ExpectedVersions :
                Authed(w) /\ WsBookmarkDelete(w, id, ev) => FannedOut(w)
          /\ \A id \in BookmarkIds, p \in MoveParents, so \in SortOrders,
                ev \in ExpectedVersions :
                Authed(w) /\ WsBookmarkMove(w, id, p, so, ev) => FannedOut(w)
      ]_vars

\* in the next state user u has no live bookmark, no event and ledger 0
Cleared(u) ==
    /\ { i \in DOMAIN db'.bookmarks :
            db'.bookmarks[i].user_id = u /\ db'.bookmarks[i].is_deleted = 0 } = {}
    /\ \A i \in 1..Len(db'.sync_events) : db'.sync_events[i].user_id # u
    /\ db'.sync_versions[u] = 0

\* in the next state user u's ledger is 1 and so are the create's result and
\* the one event of u
FirstVersion(u) ==
    /\ db'.sync_versions[u] = 1
    /\ result'.kind = "ok"
    /\ result'.syncVersion = 1
    /\ \A i \in 1..Len(db'.sync_events) :
          db'.sync_events[i].user_id = u => db'.sync_events[i].sync_version = 1

\* C12: after a clear (REST or socket), in whatever state it is called, the
\* user has no live bookmark, no event and ledger 0; a create made while the
\* ledger is 0 is stamped 1 and leaves the ledger at 1.
C12_ClearResets ==
    [][ /\ \A u \in Users : RestClear(u) => Cleared(u)
        /\ \A w \in Conns : Authed(w) /\ WsSyncClear(w) => Cleared(UserOf(w))
        /\ \A u \in Users, data \in CreateInputs :
              db.sync_versions[u] = 0 /\ RestCreate(u, data) => FirstVersion(u)
        /\ \A w \in Conns, data \in CreateInputs :
              Authed(w) /\ db.sync_versions[UserOf(w)] = 0 /\ WsBookmarkCreate(w, data)
                  => FirstVersion(UserOf(w))
      ]_vars

\* a user whose ledger had reached 2 was cleared and has created again
C12_Witness ==
    \E u \in Users :
        /\ wiped[u] >= 2
        /\ db.sync_versions[u] = 1
        /\ result.kind = "ok"
        /\ result.syncVersion = 1
        /\ result.bookmark.userId = u

\* socket w was written one error frame of code AUTH_REQUIRED and neither the
\* tables nor the sockets nor the fan-out sets changed
Refused(w) ==
    /\ Len(sent') = 1
    /\ sent'[1].to = w
    /\ sent'[1].msg.type = "error"
    /\ sent'[1].msg.code = "AUTH_REQUIRED"
    /\ db' = db
    /\ nextId' = nextId
    /\ sockets' = sockets
    /\ userConnections' = userConnections

MembersAreOwn ==
    \A u \in DOMAIN userConnections :
        \A w \in userConnections[u] : sockets[w].userId = u

\* every broadcast the last mutation handler wrote went to a socket that is
\* authenticated as the owner of the bookmark the event is about
BroadcastsAreOwn ==
    \A i \in 1..Len(sent) :
        sent[i].msg.type = "sync_incremental" /\ Succeeded(result) =>
            sockets[sent[i].to].userId
                = db.bookmarks[sent[i].msg.events[1].bookmarkId].user_id

\* C14: each socket in the fan-out set of user u is authenticated and its
\* current userId is u (so an unauthenticated socket is in no set), and no
\* socket is written a broadcast of a user other than the one it is currently
\* authenticated as, also after a second auth message on the same socket.
C14_FanoutIsPerUser == MembersAreOwn /\ BroadcastsAreOwn

\* C15: a closed socket is in no user's fan-out set, and the registry holds
\* no empty set.
C15_ClosedIsOut ==
    /\ \A w \in DOMAIN sockets :
          sockets[w].readyState = "CLOSED" =>
              \A u \in DOMAIN userConnections : w \notin userConnections[u]
    /\ \A u \in DOMAIN userConnections : userConnections[u] # {}

ErrorsCarryRequestId ==
    \A i \in 1..Len(sent') :
        sent'[i].msg.type = "error" =>
            /\ "requestId" \in DOMAIN sent'[i].msg
            /\ sent'[i].msg.requestId = RequestId

\* C18: every error frame written in answer to a bookmark_create, _update,
\* _delete or _move message carries that message's requestId, AUTH_REQUIRED
\* errors and errors raised while handling the message included.
C18_ErrorsCarryRequestId ==
    [][ \A w \in Conns :
          /\ \A data \in CreateInputs : WsBookmarkCreate(w, data) => ErrorsCarryRequestId
          /\ \A id \in BookmarkIds, data \in Patches, ev \in ExpectedVersions :
                WsBookmarkUpdate(w, id, data, ev) => ErrorsCarryRequestId
          /\ \A id \in BookmarkIds, ev \in ExpectedVersions :
                WsBookmarkDelete(w, id, ev) => ErrorsCarryRequestId
          /\ \A id \in BookmarkIds, p \in MoveParents, so \in SortOrders,
                ev \in ExpectedVersions :
                WsBookmarkMove(w, id, p, so, ev) => ErrorsCarryRequestId
      ]_vars

\* the route answered HTTP 200 {success: true} and no table changed
Swallowed ==
    /\ reply'.status = 200
    /\ reply'.body = [success |-> TRUE]
    /\ db' = db

C20_StalePatchIs409 ==
    [][ \A u \in Users, id \in BookmarkIds, data \in Patches, ev \in ExpectedVersions :
            Stale(u, id, ev) /\ RestUpdate(u, id, data, ev) => reply'.status = 409
      ]_vars

(* ---------------------- properties of the extension ------------------- *)

\* the listeners act: logged in and no run holds isSyncing
Listening == authToken # NULL /\ ~isSyncing

\* the link has an entry in the local-to-remote id map
LinkMapped == LinkId \in DOMAIN localToRemoteId

\* the server's row for remote id r after the step, when the user has one
RowAfter(r) == db'.bookmarks[r]

\* C21: while the extension is logged in and no run is in progress, a rename,
\* removal or move of a local bookmark that has a remote-id mapping leaves the
\* server's row of that remote id renamed, soft-deleted or moved accordingly
\* when the listener's request has completed.
C21_LocalEditsReachServer ==
    [][(Listening /\ LinkMapped) =>
          LET r == localToRemoteId[LinkId] IN
          /\ \A t \in LinkTitles :
                LocalChange(t) => HasBookmark(db', r, ExtUser) /\ RowAfter(r).title = t
          /\ LocalRemove => HasBookmark(db', r, ExtUser) /\ RowAfter(r).is_deleted = 1
          /\ \A p \in LinkParents :
                LocalMove(p) =>
                    /\ HasBookmark(db', r, ExtUser)
                    /\ RowAfter(r).parent_id = RemoteParent(localToRemoteId, p)
                    /\ RowAfter(r).sort_order = tree'[LinkId].index]_vars

\* the upload requests of a run (everything but the clear)
Uploads(r) == SelectSeq(r.requests, LAMBDA q : q.route # "clear")
AllUploadsOk(r) == \A k \in 1..Len(r.requests) :
                      r.requests[k].route # "clear" => r.requests[k].ok

\* the remote ids the responses before request k of the run gave local id l
AssignedBefore(r, k, l) ==
    UNION { { r.requests[j].results[i].id :
                i \in {x \in 1..Len(r.requests[j].results) :
                          r.requests[j].results[x].localId = l} } :
            j \in 1..(k - 1) }

\* the remote ids the response to request k gave local id l
AssignedBy(r, k, l) ==
    { r.requests[k].results[i].id :
        i \in {x \in 1..Len(r.requests[k].results) : r.requests[k].results[x].localId = l} }

\* C23: in a full sync whose upload requests all succeed, a bookmark whose
\* local parent is not the root is sent after the batch of its parent has
\* returned and its row's parentId is the remote id that batch gave the
\* parent; the requests follow one another in non-decreasing depth.
C23_ParentsFirst ==
    (run.kind = "full" /\ AllUploadsOk(run)) =>
        \A k \in 1..Len(run.requests) :
            LET q == run.requests[k] IN
            /\ \A i \in 1..Len(q.items) :
                  q.items[i].parentLocal # RootId =>
                      /\ AssignedBefore(run, k, q.items[i].parentLocal) # {}
                      /\ q.items[i].parentId \in AssignedBefore(run, k, q.items[i].parentLocal)
                      /\ \A id \in AssignedBy(run, k, q.items[i].localId) :
                            HasBookmark(db, id, ExtUser) =>
                                db.bookmarks[id].parent_id \in
                                    AssignedBefore(run, k, q.items[i].parentLocal)
            /\ \A j \in 1..(k - 1) :
                  \A a \in 1..Len(run.requests[j].items), b \in 1..Len(q.items) :
                      run.requests[j].items[a].depth <= q.items[b].depth

\* the local ids a run has sent in an upload request
Uploaded(r) ==
    UNION { { r.requests[k].items[i].localId : i \in 1..Len(r.requests[k].items) } :
            k \in 1..Len(r.requests) }

\* the local bookmarks without an entry in the map when the run started
UnmappedAtStart(r) == r.localAtStart \ r.mappedAtStart

HasCounterpart(l) ==
    \E id \in DOMAIN db.bookmarks :
        /\ db.bookmarks[id].user_id = ExtUser
        /\ db.bookmarks[id].is_deleted = 0
        /\ db.bookmarks[id].url = tree[l].url
        /\ tree[l].url = NULL => db.bookmarks[id].title = tree[l].title
\* every local bookmark that the run found at its start and that is still
\* there has one
AllLive == \A l \in DOMAIN tree \cap run.localAtStart : HasCounterpart(l)

\* C25: when the first incremental run after a full run that was killed
\* after its clear finishes with all its requests accepted, every local
\* bookmark (of those the run found when it started) has a live row on the
\* server.
C25_IncrementalRepairs ==
    [][((SyncFinish \/ IncrementalStart)
        /\ run'.kind = "incremental" /\ run'.pc = "done"
        /\ run'.afterInterrupt /\ AllUploadsOk(run'))
       => AllLive']_vars

(* ------------------ acknowledgements, broadcasts, errors --------------- *)

IsBroadcast(f) == f.msg.type = "sync_incremental"
IsAck(f) == f.msg.type = "bookmark_ack"

\* the syncVersion of the event the last mutation stored
LastStoredVersion == db.sync_events[Len(db.sync_events)].sync_version

RestNotFound ==
    /\ reply'.status = 404
    /\ reply'.body = [error |-> "Bookmark not found"]
    /\ db' = db
    /\ sent' = <<>>

\* the same on socket w: one error frame with the request's requestId, to w
WsNotFound(w) ==
    /\ sent' = <<[to |-> w, msg |-> ServerError(RequestId, "Bookmark not found")]>>
    /\ db' = db

WellFormed(body) ==
    \A i \in 1..Len(body.bookmarks) :
        \A k \in {"parentId", "title", "url", "isFolder", "sortOrder"} :
            k \in DOMAIN body.bookmarks[i]

\* row id of user u was made from item
RowFrom(row, u, item) ==
    /\ row.user_id = u
    /\ row.parent_id = item.parentId
    /\ row.title = item.title
    /\ row.url = item.url
    /\ row.is_folder = (IF item.isFolder THEN 1 ELSE 0)
    /\ row.sort_order = item.sortOrder
    /\ row.is_deleted = 0

\* the outcome of a batch of user u with a body the schema accepts
BatchCreated(u, body) ==
    LET n == Len(body.bookmarks)
        res == reply'.body.bookmarks
        ids == { res[i].id : i \in 1..Len(res) }
        before == Len(db.sync_events)
    IN
    /\ reply'.status = 201
    /\ Len(res) = n
    /\ reply'.body.count = n
    /\ Cardinality(ids) = n
    /\ ids \cap DOMAIN db.bookmarks = {}
    /\ DOMAIN db'.bookmarks = DOMAIN db.bookmarks \cup ids
    /\ \A id \in DOMAIN db.bookmarks : db'.bookmarks[id] = db.bookmarks[id]
    /\ \A i \in 1..n :
          /\ RowFrom(db'.bookmarks[res[i].id], u, body.bookmarks[i])
          /\ IF "localId" \in DOMAIN body.bookmarks[i]
             THEN "localId" \in DOMAIN res[i] /\ res[i].localId = body.bookmarks[i].localId
             ELSE "localId" \notin DOMAIN res[i]
    /\ db'.sync_versions[u] = db.sync_versions[u] + n
    /\ \A o \in Users \ {u} : db'.sync_versions[o] = db.sync_versions[o]
    /\ Len(db'.sync_events) = before + n
    /\ SubSeq(db'.sync_events, 1, before) = db.sync_events
    /\ \A i \in 1..n :
          /\ db'.sync_events[before + i].type = "create"
          /\ db'.sync_events[before + i].user_id = u
          /\ db'.sync_events[before + i].bookmark_id = res[i].id
          /\ db'.sync_events[before + i].sync_version = db.sync_versions[u] + i

Holdings(d, b) ==
    [rows |-> { d.bookmarks[i] : i \in {j \in DOMAIN d.bookmarks : d.bookmarks[j].user_id = b} },
     events |-> SelectSeq(d.sync_events, LAMBDA e : e.user_id = b),
     ledger |-> d.sync_versions[b]]

\* a step on behalf of user a left every other user's holdings alone
OthersKept(a) == \A b \in Users \ {a} : Holdings(db', b) = Holdings(db, b)

\* id names a row of another user than a
Foreign(a, id) == id \in DOMAIN db.bookmarks /\ db.bookmarks[id].user_id # a

\* C28: a step on behalf of one user (create, update, move, delete, clear,
\* batch, sync_request; REST or socket) leaves the rows, events and ledger
\* of every other user unchanged, and a get, update, move or delete naming
\* another user's bookmark is answered as for an id without a row: 404 (an
\* error frame on a socket; {success: true} or an ack for a delete) and no
\* table changed.
C28_AccountsAreApart ==
    [][ /\ db' # db =>
              /\ \A u \in Users :
                    /\ RestClear(u) => OthersKept(u)
                    /\ \A data \in ShapeInputs : RouteCreate(u, data) => OthersKept(u)
                    /\ \A body \in BatchBodies : RouteBatch(u, body) => OthersKept(u)
                    /\ \A id \in StoreIds :
                          /\ \A data \in ShapePatches, ev \in ExpectedVersions :
                                RouteUpdate(u, id, data, ev) => OthersKept(u)
                          /\ \A p \in MoveParents, so \in SortOrders :
                                RouteMove(u, id, p, so) => OthersKept(u)
                          /\ \A ev \in ExpectedVersions :
                                RouteDelete(u, id, ev) => OthersKept(u)
              /\ \A w \in Conns :
                    Authed(w) =>
                        /\ \A v \in CursorValues : ~WsSyncRequest(w, v)
                        /\ WsSyncClear(w) => OthersKept(UserOf(w))
                        /\ \A data \in ShapeInputs :
                              WsBookmarkCreate(w, data) => OthersKept(UserOf(w))
                        /\ \A id \in StoreIds, ev \in ExpectedVersions :
                              /\ \A data \in ShapePatches :
                                    WsBookmarkUpdate(w, id, data, ev) => OthersKept(UserOf(w))
                              /\ \A p \in MoveParents, so \in SortOrders :
                                    WsBookmarkMove(w, id, p, so, ev) => OthersKept(UserOf(w))
                              /\ WsBookmarkDelete(w, id, ev) => OthersKept(UserOf(w))
        /\ \A u \in Users, id \in StoreIds :
              Foreign(u, id) =>
                  /\ RouteGet(u, id) => reply'.status = 404
                  /\ \A data \in ShapePatches, ev \in ExpectedVersions :
                        RouteUpdate(u, id, data, ev) => reply'.status = 404 /\ db' = db
                  /\ \A p \in MoveParents, so \in SortOrders :
                        RouteMove(u, id, p, so) => reply'.status = 404 /\ db' = db
                  /\ \A ev \in ExpectedVersions :
                        RouteDelete(u, id, ev) =>
                            reply'.body = [success |-> TRUE] /\ db' = db
        /\ \A w \in Conns, id \in StoreIds :
              Authed(w) /\ Foreign(UserOf(w), id) =>
                  \A ev \in ExpectedVersions :
                      /\ \A data \in ShapePatches :
                            WsBookmarkUpdate(w, id, data, ev) => WsNotFound(w)
                      /\ \A p \in MoveParents, so \in SortOrders :
                            WsBookmarkMove(w, id, p, so, ev) => WsNotFound(w)
                      /\ WsBookmarkDelete(w, id, ev) => db' = db /\ result' = NotFound
      ]_vars

\* a request was answered 404 while every id it could name has a live row,
\* so the id it named is a bookmark of the other user
C28_Witness ==
    /\ reply.status = 404
    /\ \A id \in StoreIds :
          id \in DOMAIN db.bookmarks /\ db.bookmarks[id].is_deleted = 0
    /\ \A u \in Users : \E id \in StoreIds : db.bookmarks[id].user_id = u

\* C29: every stored bookmark has url = null exactly when it is a folder.
C29_UrlIffNotFolder ==
    \A id \in DOMAIN db.bookmarks :
        (db.bookmarks[id].url = NULL) <=> (db.bookmarks[id].is_folder = 1)

(* ------------------------------ heartbeat ----------------------------- *)

\* socket w is in no set of the fan-out registry
Unregistered(w) == \A u \in DOMAIN userConnections : w \notin userConnections[u]

\* C26: a connection that has not answered a heartbeat probe with a pong by
\* the next tick is terminated at that tick, and is thereafter removed from
\* the fan-out registry; a connection that answers every probe before the
\* next tick is never terminated by the heartbeat.
C26_HeartbeatTerminatesSilent ==
    /\ [][\A w \in FanoutConns :
            /\ (w \in Clients /\ probe[w] = "probed" /\ HeartbeatTick)
                   => probe'[w] = "terminated" /\ sockets'[w].readyState = "CLOSING"
            /\ (probe[w] # "terminated" /\ probe'[w] = "terminated")
                   => probe[w] = "probed"]_vars
    /\ \A w \in FanoutConns : (probe[w] = "terminated") ~> Unregistered(w)

(* ------------------------------ the event log ------------------------- *)

\* the step appended one event of the given type about bookmark id of user u,
\* stamped with the ledger value after the increment, which the caller is
\* returned; the events that existed are as they were
EventAdded(u, type, id) ==
    LET n == Len(db.sync_events) IN
    /\ Len(db'.sync_events) = n + 1
    /\ SubSeq(db'.sync_events, 1, n) = db.sync_events
    /\ db'.sync_events[n + 1].type = type
    /\ db'.sync_events[n + 1].bookmark_id = id
    /\ db'.sync_events[n + 1].user_id = u
    /\ db'.sync_versions[u] = db.sync_versions[u] + 1
    /\ db'.sync_events[n + 1].sync_version = db'.sync_versions[u]
    /\ result'.syncVersion = db'.sync_versions[u]

\* the step removed the events of user u and left the others as they were
EventsCleared(u) ==
    db'.sync_events = SelectSeq(db.sync_events, LAMBDA e : e.user_id # u)

\* the step appended one create event per item of a batch, in order
BatchEvents(u, body) ==
    LET n == Len(db.sync_events)
        k == Len(body.bookmarks)
    IN /\ Len(db'.sync_events) = n + k
       /\ SubSeq(db'.sync_events, 1, n) = db.sync_events
       /\ \A i \in 1..k :
             /\ db'.sync_events[n + i].type = "create"
             /\ db'.sync_events[n + i].user_id = u
             /\ db'.sync_events[n + i].sync_version = db.sync_versions[u] + i

\* C31: every successful create, update, delete or move appends exactly one
\* event of the matching type and bookmark id whose syncVersion is the
\* ledger value after the increment, the value returned to the caller; no
\* other operation appends an event, and an existing event is modified or
\* removed only by a clear.
C31_OneEventPerMutation ==
    [][ /\ Succeeded(result') =>
              /\ \A u \in Users :
                    /\ \A data \in ShapeInputs :
                          RouteCreate(u, data) => EventAdded(u, "create", IdPool[nextId + 1])
                    /\ \A id \in StoreIds :
                          /\ \A data \in ShapePatches, ev \in ExpectedVersions :
                                RouteUpdate(u, id, data, ev) => EventAdded(u, "update", id)
                          /\ \A p \in MoveParents, so \in SortOrders :
                                RouteMove(u, id, p, so) => EventAdded(u, "move", id)
                          /\ \A ev \in ExpectedVersions :
                                RouteDelete(u, id, ev) => EventAdded(u, "delete", id)
              /\ \A w \in Conns :
                    /\ \A data \in ShapeInputs :
                          WsBookmarkCreate(w, data)
                              => EventAdded(UserOf(w), "create", IdPool[nextId + 1])
                    /\ \A id \in StoreIds, ev \in ExpectedVersions :
                          /\ \A data \in ShapePatches :
                                WsBookmarkUpdate(w, id, data, ev)
                                    => EventAdded(UserOf(w), "update", id)
                          /\ \A p \in MoveParents, so \in SortOrders :
                                WsBookmarkMove(w, id, p, so, ev)
                                    => EventAdded(UserOf(w), "move", id)
                          /\ WsBookmarkDelete(w, id, ev)
                                => EventAdded(UserOf(w), "delete", id)
        /\ (~Succeeded(result') /\ db'.sync_events # db.sync_events) =>
              \/ \E u \in Users : RestClear(u) /\ EventsCleared(u)
              \/ \E w \in Conns : Authed(w) /\ WsSyncClear(w) /\ EventsCleared(UserOf(w))
              \/ \E u \in Users, body \in BatchBodies :
                    RouteBatch(u, body) /\ BatchEvents(u, body)
      ]_vars

\* a mutation succeeded whose event carries the ledger value 2 while the
\* bookmark's own version is 1
C31_Witness ==
    /\ result.kind = "ok"
    /\ result.syncVersion > result.bookmark.syncVersion
    /\ db.sync_events[Len(db.sync_events)].sync_version = result.syncVersion
    /\ db.sync_events[Len(db.sync_events)].bookmark_id = result.bookmark.id

(* ------------------------------ soft delete --------------------------- *)

\* the step marked row id as deleted and did nothing else to the rows
Marked(id) ==
    /\ DOMAIN db'.bookmarks = DOMAIN db.bookmarks
    /\ \A i \in DOMAIN db.bookmarks \ {id} : db'.bookmarks[i] = db.bookmarks[i]
    /\ db'.bookmarks[id].is_deleted = 1
    /\ db'.bookmarks[id].deleted_at # NULL
    /\ \A k \in DOMAIN db.bookmarks[id] \ {"is_deleted", "deleted_at"} :
          db'.bookmarks[id][k] = db.bookmarks[id][k]

\* no bookmark of the set bs answers a row that is marked deleted
NoneDeleted(bs) ==
    \A b \in bs : ~b.isDeleted /\ db.bookmarks[b.id].is_deleted = 0

\* the rows the step removed are exactly the rows of user u
RowsCleared(u) ==
    DOMAIN db.bookmarks \ DOMAIN db'.bookmarks =
        { i \in DOMAIN db.bookmarks : db.bookmarks[i].user_id = u }

\* C32: a successful delete only marks the row (is_deleted = 1, deleted_at
\* set) and never removes it; a marked row stays marked, and is absent from
\* getAllBookmarks and from search results; a row disappears from storage
\* only through a clear of its user.
C32_DeleteOnlyMarks ==
    [][ /\ result'.kind = "success" =>
              /\ \A u \in Users, id \in BookmarkIds, ev \in ExpectedVersions :
                    RestDelete(u, id, ev) => Marked(id)
              /\ \A w \in Conns, id \in BookmarkIds, ev \in ExpectedVersions :
                    WsBookmarkDelete(w, id, ev) => Marked(id)
        /\ \A id \in DOMAIN db.bookmarks \cap DOMAIN db'.bookmarks :
              db.bookmarks[id].is_deleted = 1 => db'.bookmarks[id].is_deleted = 1
        /\ (db' = db /\ reply'.status = 200) =>
              \A u \in Users :
                  /\ RouteList(u) => NoneDeleted(reply'.body.bookmarks)
                  /\ \A q \in Queries \ {""} :
                        RouteSearch(u, q) => NoneDeleted(reply'.body.results)
        /\ ~(DOMAIN db.bookmarks \subseteq DOMAIN db'.bookmarks) =>
              \/ \E u \in Users : RestClear(u) /\ RowsCleared(u)
              \/ \E w \in Conns : Authed(w) /\ WsSyncClear(w) /\ RowsCleared(UserOf(w))
      ]_vars

\* a search found one bookmark while a deleted row of the same user has the
\* same title and url
C32_Witness ==
    /\ reply.status = 200
    /\ "results" \in DOMAIN reply.body
    /\ reply.body.total = 1
    /\ \E b \in reply.body.results, id \in DOMAIN db.bookmarks :
          /\ db.bookmarks[id].user_id = b.userId
          /\ db.bookmarks[id].is_deleted = 1
          /\ db.bookmarks[id].title = b.title
          /\ db.bookmarks[id].url = b.url

\* row id exists and is marked deleted
Deleted(id) == id \in DOMAIN db.bookmarks /\ db.bookmarks[id].is_deleted = 1

\* C36: once a bookmark is soft-deleted, no update or move request, with
\* whatever expectedVersion, changes a field of its row, raises the ledger
\* or appends an event.
C36_DeletedIsFrozen ==
    [][\A id \in BookmarkIds :
          Deleted(id) =>
              /\ \A u \in Users, data \in Patches, ev \in ExpectedVersions :
                    RestUpdate(u, id, data, ev) => db' = db
              /\ \A u \in Users, p \in RowParents, so \in SortOrders :
                    RestMove(u, id, p, so) => db' = db
              /\ \A w \in Conns, ev \in ExpectedVersions :
                    /\ \A data \in Patches :
                          WsBookmarkUpdate(w, id, data, ev) => db' = db
                    /\ \A p \in RowParents, so \in SortOrders :
                          WsBookmarkMove(w, id, p, so, ev) => db' = db
      ]_vars

(* --------------------------------- tree ------------------------------- *)

\* the ids met when climbing n times from id along parentId in bs
RECURSIVE Climb(_, _, _)
Climb(bs, id, n) ==
    IF n = 0 \/ id = NULL \/ ~\E b \in bs : b.id = id THEN {}
    ELSE LET b == CHOOSE x \in bs : x.id = id
         IN {id} \cup Climb(bs, b.parentId, n - 1)

\* C39: after any sequence of create and move requests, no live bookmark of
\* a user is its own ancestor along parentId, and every live bookmark is a
\* node of the tree buildBookmarkTree makes of the user's live bookmarks.
C39_TreeIsAcyclic ==
    \A u \in Users :
        LET bs == getAllBookmarks(db, u) IN
        /\ \A b \in bs : b.id \notin Climb(bs, b.parentId, Cardinality(bs))
        /\ buildBookmarkTree(bs) = bs

\* two requests were in flight at the same time
Concurrent(r1, r2) == r1 \in inflight[r2].with \/ r2 \in inflight[r1].with

\* C33: of two concurrent requests, over REST or the socket, that update,
\* move or delete the same bookmark with the same expectedVersion, at most
\* one succeeds and the other ends in a conflict, whichever handler runs first.
C33_OneWinner ==
    \A r1, r2 \in DOMAIN inflight :
        (/\ r1 # r2
         /\ inflight[r1].state = "done" /\ inflight[r2].state = "done"
         /\ Concurrent(r1, r2)
         /\ inflight[r1].id = inflight[r2].id
         /\ inflight[r1].expectedVersion = inflight[r2].expectedVersion
         /\ inflight[r1].outcome \in {"ok", "success"}
         \* a frame on a socket that never authenticated is refused unread
         /\ inflight[r2].outcome # "none")
        => inflight[r2].outcome = "conflict"

\* the syncVersions of the events of user u that a socket handler recorded
WsVersions(u) == { db.sync_events[i].sync_version :
                     i \in { k \in 1..Len(db.sync_events) :
                               /\ db.sync_events[k].user_id = u
                               /\ db.sync_events[k].client_id # ApiClient } }

\* the positions in Got(u) of the frames of one kind
Frames(u, kind) == { i \in 1..Len(Got(u)) : Got(u)[i].kind = kind }

Running == run.pc \in {"clear", "upload"}

\* C35: at most one sync run is in progress: isSyncing is true exactly while
\* a run is between its start and its end, so it is false after a run that
\* completed, returned early, failed or died with the worker; no run starts
\* while isSyncing is true; and a request sent while isSyncing is true is a
\* request of the run in progress, so a trigger then sends none.
C35_OneRunAtATime ==
    /\ [](isSyncing <=> Running)
    /\ [][/\ isSyncing => run'.started = run.started
          /\ (isSyncing /\ <<db, reply>>' # <<db, reply>>)
             => (Running /\ Len(run'.requests) > Len(run.requests))
          /\ (tasks'.refused /\ ~tasks.refused) => UNCHANGED <<run, serverVars>>]_vars

\* a trigger has been refused, and the latest run failed and left isSyncing false
C35_Witness ==
    /\ tasks.refused
    /\ run.pc = "failed"
    /\ ~isSyncing

\* the live rows of the extension's user
LiveRows == { id \in DOMAIN db.bookmarks :
                db.bookmarks[id].user_id = ExtUser /\ db.bookmarks[id].is_deleted = 0 }

\* every local bookmark is mapped to a live row of its own with its title
\* and url, and the server has no other live row
OneToOne ==
    /\ \A l \in DOMAIN tree :
          /\ l \in DOMAIN localToRemoteId
          /\ localToRemoteId[l] \in LiveRows
          /\ db.bookmarks[localToRemoteId[l]].title = tree[l].title
          /\ db.bookmarks[localToRemoteId[l]].url = tree[l].url
    /\ \A l1, l2 \in DOMAIN tree :
          l1 # l2 => localToRemoteId[l1] # localToRemoteId[l2]
    /\ Cardinality(LiveRows) = Cardinality(DOMAIN tree)

\* C37: when a full sync run has completed with all its requests accepted,
\* the local tree is the one the run started with and no bookmark-created
\* listener is in flight any more, every local bookmark has exactly one live
\* row on the server and the id map points to it.
C37_FullSyncIsOneToOne ==
    (/\ run.kind = "full" /\ run.pc = "done"
     /\ AllUploadsOk(run)
     /\ run.cleared
     /\ DOMAIN tree = run.localAtStart
     /\ tasks.created = "idle")
    => OneToOne

\* C38: once a LOGOUT has completed and until the next login, the worker's
\* authToken is null (and with it isAuthenticated false), the stored
\* settings hold no token and the stored id map is empty, whatever handlers
\* calling ensureStateRestored ran in between.
C38_LogoutClearsAll ==
    tasks.logout = "done"
    => /\ authToken = NULL
       /\ settingsStorage = NULL
       /\ idMapStorage = <<>>
====
